---------------------------- MODULE Spec2Model ----------------------------
(***************************************************************************)
(* A state-machine model of roon-tui: the App state (src/src/app.rs), the  *)
(* input dispatcher (src/src/input.rs), the action handler and the event   *)
(* loop (src/src/main.rs).  The external controller (the `roon` binary     *)
(* behind src/src/roon/mod.rs) is the environment: every call it receives  *)
(* is answered nondeterministically with a failure or with one of a small  *)
(* set of results.                                                         *)
(***************************************************************************)
EXTENDS Integers, Sequences, FiniteSets, TLC

(***************************************************************************)
(* Bounds of the model.                                                    *)
(***************************************************************************)
\* longest breadcrumb stack explored: BrowseSelect is not taken beyond it
MaxDepth == 2
\* longest search query explored: SearchChar is not taken beyond it
MaxQuery == 1
\* clock ticks per second: the granularity at which Instants are observed
TicksPerSecond == 1
\* the age of last_refresh (in ticks) is tracked up to this value
MaxAge == 1
\* art-fetch tasks in flight at any one time
MaxFetches == 1
\* largest item index whose select argument is computed
MaxIndex == 120

(***************************************************************************)
(* Program constants.                                                      *)
(***************************************************************************)
\* main.rs: let poll_interval = Duration::from_secs(1)
PollIntervalSecs == 1
\* main.rs: mpsc::channel::<AlbumArtMsg>(1)
ChannelCapacity == 1

PollTicks == PollIntervalSecs * TicksPerSecond

\* Option::None of a string or an enum
None == "None"

\* Option of a record: the empty sequence, or the one-element sequence
NoneR == <<>>
Some(x) == <<x>>

Min(a, b) == IF a < b THEN a ELSE b

\* usize::saturating_sub
saturating_sub(a, b) == IF a > b THEN a - b ELSE 0

(***************************************************************************)
(* Keystrokes: crossterm KeyEvent reduced to its code and the CONTROL      *)
(* modifier, the only two parts input.rs reads.                            *)
(***************************************************************************)
Chars == {"q", "?", "z", " ", "n", "p", "s", "l", "r", "+", "=", "-", "m",
          "1", "2", "3", "/", "j", "k", "h", "c", "a"}
SpecialCodes == {"Esc", "Enter", "Backspace", "Up", "Down", "Tab"}

CharKey(c) == [code |-> "Char", ch |-> c, ctrl |-> FALSE]
CtrlKey(c) == [code |-> "Char", ch |-> c, ctrl |-> TRUE]
CodeKey(k) == [code |-> k, ch |-> "", ctrl |-> FALSE]

AllKeys == {[code |-> "Char", ch |-> c, ctrl |-> m] : c \in Chars, m \in BOOLEAN}
           \cup {[code |-> k, ch |-> "", ctrl |-> m] : k \in SpecialCodes, m \in BOOLEAN}

IsChar(key, c) == key.code = "Char" /\ key.ch = c

\* input.rs: enum Action; SearchChar carries its character
Act(t) == [type |-> t, ch |-> ""]
SearchCharAct(c) == [type |-> "SearchChar", ch |-> c]

(***************************************************************************)
(* Domain data (src/src/roon/models.rs), reduced to the fields the state   *)
(* machine reads.                                                          *)
(***************************************************************************)
Item(t) == [title |-> t]

Kitchen == [display_name |-> "Kitchen", state |-> "playing",
            outputs |-> <<[display_name |-> "Speakers", volume |-> Some([is_muted |-> FALSE])]>>,
            now_playing |-> Some([album_art_url |-> "u1", seek_position |-> 0, length |-> 2]),
            settings |-> [loop_mode |-> "disabled", shuffle |-> FALSE, auto_radio |-> FALSE]]
Office == [display_name |-> "Office", state |-> "paused",
           outputs |-> <<>>,
           now_playing |-> NoneR,
           settings |-> [loop_mode |-> "loop", shuffle |-> TRUE, auto_radio |-> FALSE]]

\* what get_zones may answer: a failure or a zone list
ZonesErr == [ok |-> FALSE, zones |-> <<>>]
ZonesOk(zs) == [ok |-> TRUE, zones |-> zs]

\* what browse / search / select / back may answer: a failure or a BrowseResult
BrowseErr == [ok |-> FALSE, action |-> None, items |-> <<>>, title |-> None]
BrowseOk(a, is, t) == [ok |-> TRUE, action |-> a, items |-> is, title |-> t]

\* what the calls without a result may answer
UnitResults == {[ok |-> TRUE], [ok |-> FALSE]}

\* e.to_string() of a failed call of operation op
ErrMsg(op) == "roon " \o op \o " failed"

\* one entry of the log of controller invocations
Call(op, arg, n, res) == [op |-> op, arg |-> arg, n |-> n, res |-> res]

VARIABLES
  \* ---- App (app.rs) ----
  should_quit, view, popup, connected, error,
  zones, selected_zone_index, zone_selector_index,
  album_art, album_art_url,
  refresh_age,       \* ticks since App.last_refresh, tracked up to MaxAge
  browse, search,
  \* ---- run_app (main.rs) ----
  pc,                \* position in main and in run_app's loop
  terminal,          \* the terminal's modes, run_app's result and main's
  poll_age,          \* ticks since last_poll, tracked up to PollTicks
  chan,              \* the album-art channel: URLs of the decoded images
  fetches,           \* number of detached fetch tasks in flight, per URL
  late_art,          \* the URL of the latest art message, if it was applied while
                     \* it was not the active zone's art URL, else None
  \* ---- history of the latest step ----
  action,            \* the Action the latest keystroke was dispatched to
  calls              \* the controller invocations of the latest step, in order

vars == <<should_quit, view, popup, connected, error, zones, selected_zone_index,
          zone_selector_index, album_art, album_art_url, refresh_age, browse, search,
          pc, terminal, poll_age, chan, fetches, late_art, action, calls>>

zoneVars == <<zones, connected, error, refresh_age>>
artVars == <<album_art, album_art_url>>
taskVars == <<chan, fetches>>

URLs == {"u1", "u2"}

(***************************************************************************)
(* app.rs: initial states.                                                 *)
(***************************************************************************)
\* BrowseState::default()
BrowseStateDefault == [items |-> <<>>, selected_index |-> 0,
                       breadcrumbs |-> <<"Library">>, loading |-> FALSE, error |-> None]

\* the inner BrowseState of SearchState::default() / SearchState::reset()
SearchResultsDefault == [BrowseStateDefault EXCEPT !.breadcrumbs = <<"Search">>]

\* SearchState::default()
SearchStateDefault == [query |-> <<>>, input_active |-> TRUE, results |-> SearchResultsDefault]

\* a reset that keeps the state as it is
BrowseState_reset_nothing(s) == s

\* BrowseState::reset
BrowseState_reset(s) == [s EXCEPT !.items = <<>>, !.selected_index = 0,
                                  !.breadcrumbs = <<"Library">>, !.loading = FALSE,
                                  !.error = None]

\* SearchState::reset
SearchState_reset(s) == [s EXCEPT !.query = <<>>, !.input_active = TRUE,
                                  !.results = SearchResultsDefault]

(***************************************************************************)
(* app.rs: read-only helpers.                                              *)
(***************************************************************************)
\* Vec::get (0-based)
Get(seq, i) == IF i < Len(seq) THEN Some(seq[i + 1]) ELSE NoneR

\* App::current_zone
current_zone == Get(zones, selected_zone_index)

\* first_output_name that takes the last output of the zone
first_output_name_last ==
  IF current_zone = NoneR THEN None
  ELSE IF current_zone[1].outputs = <<>> THEN None
  ELSE current_zone[1].outputs[Len(current_zone[1].outputs)].display_name

\* App::first_output_name
first_output_name ==
  IF current_zone = NoneR THEN None
  ELSE IF current_zone[1].outputs = <<>> THEN None
  ELSE current_zone[1].outputs[1].display_name

\* App::get_selected_zone_name
get_selected_zone_name ==
  IF Get(zones, zone_selector_index) = NoneR THEN None
  ELSE Get(zones, zone_selector_index)[1].display_name

\* App::album_art_url_if_changed
album_art_url_if_changed ==
  IF current_zone = NoneR THEN None
  ELSE IF current_zone[1].now_playing = NoneR THEN None
  ELSE IF current_zone[1].now_playing[1].album_art_url = None THEN None
  ELSE IF album_art_url # current_zone[1].now_playing[1].album_art_url
       THEN current_zone[1].now_playing[1].album_art_url
       ELSE None

\* the art URL of the active zone's NowPlaying, as album_art_url_if_changed reads it
current_art_url ==
  IF current_zone = NoneR THEN None
  ELSE IF current_zone[1].now_playing = NoneR THEN None
  ELSE current_zone[1].now_playing[1].album_art_url

(***************************************************************************)
(* app.rs: the progress of the current track.  Positions and lengths are   *)
(* whole seconds; the time since last_refresh is refresh_age ticks, so the *)
(* interpolated position is kept in ticks.  A ratio is the fraction        *)
(* num / den with den > 0.                                                 *)
(***************************************************************************)
\* interpolated_seek without the `.min(np.length)`
interpolated_seek_unbounded ==
  IF current_zone = NoneR THEN 0
  ELSE IF current_zone[1].now_playing = NoneR THEN 0
  ELSE LET np == current_zone[1].now_playing[1]
           base_position == np.seek_position * TicksPerSecond
       IN IF current_zone[1].state = "playing"
          THEN base_position + refresh_age
          ELSE base_position

\* App::interpolated_seek, in ticks
interpolated_seek ==
  IF current_zone = NoneR THEN 0
  ELSE IF current_zone[1].now_playing = NoneR THEN 0
  ELSE LET np == current_zone[1].now_playing[1]
           base_position == np.seek_position * TicksPerSecond
       IN IF current_zone[1].state = "playing"
          THEN Min(base_position + refresh_age, np.length * TicksPerSecond)
          ELSE base_position

\* f64::clamp(0.0, 1.0) of the fraction num / den, den > 0
clamp01(num, den) ==
  IF num < 0 THEN [num |-> 0, den |-> 1]
  ELSE IF num > den THEN [num |-> 1, den |-> 1]
  ELSE [num |-> num, den |-> den]

\* progress_ratio without the clamp
progress_ratio_unclamped ==
  IF current_zone = NoneR THEN [num |-> 0, den |-> 1]
  ELSE IF current_zone[1].now_playing = NoneR THEN [num |-> 0, den |-> 1]
  ELSE LET np == current_zone[1].now_playing[1]
       IN IF np.length > 0
          THEN [num |-> interpolated_seek, den |-> np.length * TicksPerSecond]
          ELSE [num |-> 0, den |-> 1]

\* App::progress_ratio
progress_ratio ==
  IF current_zone = NoneR THEN [num |-> 0, den |-> 1]
  ELSE IF current_zone[1].now_playing = NoneR THEN [num |-> 0, den |-> 1]
  ELSE LET np == current_zone[1].now_playing[1]
       IN IF np.length > 0
          THEN clamp01(interpolated_seek, np.length * TicksPerSecond)
          ELSE [num |-> 0, den |-> 1]

(***************************************************************************)
(* input.rs: the dispatcher, a pure function of the key and the App.       *)
(***************************************************************************)
\* handle_now_playing_key
handle_now_playing_key(key) ==
  IF key.code # "Char" THEN Act("None")
  ELSE CASE key.ch = "q" -> Act("Quit")
         [] key.ch = "?" -> Act("ShowHelp")
         [] key.ch = "z" -> Act("ShowZoneSelector")
         [] key.ch = " " -> Act("PlayPause")
         [] key.ch = "n" -> Act("NextTrack")
         [] key.ch = "p" -> Act("PrevTrack")
         [] key.ch = "s" -> Act("ToggleShuffle")
         [] key.ch = "l" -> Act("CycleLoop")
         [] key.ch = "r" -> Act("ToggleRadio")
         [] key.ch \in {"+", "="} -> Act("VolumeUp")
         [] key.ch = "-" -> Act("VolumeDown")
         [] key.ch = "m" -> Act("ToggleMute")
         [] key.ch = "1" -> Act("SwitchToNowPlaying")
         [] key.ch = "2" -> Act("SwitchToBrowse")
         [] key.ch \in {"3", "/"} -> Act("SwitchToSearch")
         [] OTHER -> Act("None")

\* handle_browse_key
handle_browse_key(key) ==
  CASE IsChar(key, "q") -> Act("Quit")
    [] IsChar(key, "?") -> Act("ShowHelp")
    [] IsChar(key, "z") -> Act("ShowZoneSelector")
    [] IsChar(key, "j") \/ key.code = "Down" -> Act("SelectDown")
    [] IsChar(key, "k") \/ key.code = "Up" -> Act("SelectUp")
    [] key.code = "Enter" -> Act("BrowseSelect")
    [] key.code \in {"Esc", "Backspace"} \/ IsChar(key, "h") -> Act("BrowseBack")
    [] IsChar(key, " ") -> Act("PlayPause")
    [] IsChar(key, "n") -> Act("NextTrack")
    [] IsChar(key, "p") -> Act("PrevTrack")
    [] IsChar(key, "+") \/ IsChar(key, "=") -> Act("VolumeUp")
    [] IsChar(key, "-") -> Act("VolumeDown")
    [] IsChar(key, "m") -> Act("ToggleMute")
    [] IsChar(key, "1") -> Act("SwitchToNowPlaying")
    [] IsChar(key, "2") -> Act("SwitchToBrowse")
    [] IsChar(key, "3") \/ IsChar(key, "/") -> Act("SwitchToSearch")
    [] OTHER -> Act("None")

\* handle_search_key with the global keys q, ? and z ahead of the text input
handle_search_key_globals_first(key) ==
  CASE IsChar(key, "q") -> Act("Quit")
    [] IsChar(key, "?") -> Act("ShowHelp")
    [] IsChar(key, "z") -> Act("ShowZoneSelector")
    [] key.code = "Esc" -> Act("BrowseBack")
    [] key.code = "Enter" -> IF search.input_active THEN Act("SearchSubmit")
                             ELSE Act("BrowseSelect")
    [] key.code = "Char" /\ search.input_active -> SearchCharAct(key.ch)
    [] OTHER -> Act("None")

\* handle_search_key
handle_search_key(key) ==
  IF search.input_active
  THEN CASE key.code = "Esc" -> Act("BrowseBack")
         [] key.code = "Enter" -> Act("SearchSubmit")
         [] key.code = "Backspace" -> Act("SearchBackspace")
         [] key.code = "Char" -> SearchCharAct(key.ch)
         [] OTHER -> Act("None")
  ELSE CASE IsChar(key, "q") -> Act("Quit")
         [] IsChar(key, "?") -> Act("ShowHelp")
         [] IsChar(key, "z") -> Act("ShowZoneSelector")
         [] IsChar(key, "j") \/ key.code = "Down" -> Act("SelectDown")
         [] IsChar(key, "k") \/ key.code = "Up" -> Act("SelectUp")
         [] key.code = "Enter" -> Act("BrowseSelect")
         [] key.code \in {"Esc", "Backspace"} \/ IsChar(key, "h") -> Act("BrowseBack")
         [] IsChar(key, "/") -> Act("SearchActivate")
         [] IsChar(key, " ") -> Act("PlayPause")
         [] IsChar(key, "n") -> Act("NextTrack")
         [] IsChar(key, "p") -> Act("PrevTrack")
         [] IsChar(key, "+") \/ IsChar(key, "=") -> Act("VolumeUp")
         [] IsChar(key, "-") -> Act("VolumeDown")
         [] IsChar(key, "m") -> Act("ToggleMute")
         [] IsChar(key, "1") -> Act("SwitchToNowPlaying")
         [] IsChar(key, "2") -> Act("SwitchToBrowse")
         [] IsChar(key, "3") -> Act("SwitchToSearch")
         [] OTHER -> Act("None")

\* handle_popup_key
handle_popup_key(key, p) ==
  IF p = "Help"
  THEN IF key.code = "Esc" \/ IsChar(key, "q") \/ IsChar(key, "?")
       THEN Act("ClosePopup") ELSE Act("None")
  ELSE CASE key.code = "Esc" -> Act("ClosePopup")
         [] IsChar(key, "j") \/ key.code = "Down" -> Act("SelectDown")
         [] IsChar(key, "k") \/ key.code = "Up" -> Act("SelectUp")
         [] key.code = "Enter" -> Act("SelectZone")
         [] OTHER -> Act("None")

\* handle_key with the Ctrl-C test ahead of the popup test
handle_key_ctrl_c_first(key) ==
  IF key.ctrl /\ IsChar(key, "c") THEN Act("Quit")
  ELSE IF popup # None THEN handle_popup_key(key, popup)
  ELSE CASE view = "NowPlaying" -> handle_now_playing_key(key)
         [] view = "Browse" -> handle_browse_key(key)
         [] view = "Search" -> handle_search_key(key)

\* handle_key without the Ctrl-C test
handle_key_no_ctrl_c(key) ==
  IF popup # None THEN handle_popup_key(key, popup)
  ELSE CASE view = "NowPlaying" -> handle_now_playing_key(key)
         [] view = "Browse" -> handle_browse_key(key)
         [] view = "Search" -> handle_search_key(key)

\* handle_key
handle_key(key) ==
  IF popup # None THEN handle_popup_key(key, popup)
  ELSE IF key.ctrl /\ IsChar(key, "c") THEN Act("Quit")
  ELSE CASE view = "NowPlaying" -> handle_now_playing_key(key)
         [] view = "Browse" -> handle_browse_key(key)
         [] view = "Search" -> handle_search_key(key)

(***************************************************************************)
(* main.rs: refresh_zones.  z is the answer of get_zones.                  *)
(***************************************************************************)
ZonesCall(z) == Call("zones", "", 0, [ok |-> z.ok])

\* a refresh whose failure leaves `connected` as it was
refresh_zones_keep_connected(z) ==
  IF z.ok
  THEN /\ zones' = z.zones
       /\ connected' = TRUE
       /\ error' = None
       /\ refresh_age' = 0
  ELSE /\ error' = ErrMsg("zones")
       /\ UNCHANGED <<zones, connected, refresh_age>>

\* a refresh whose failure empties the zone list and restarts the interpolation
refresh_zones_clear_on_error(z) ==
  IF z.ok
  THEN /\ zones' = z.zones
       /\ connected' = TRUE
       /\ error' = None
       /\ refresh_age' = 0
  ELSE /\ connected' = FALSE
       /\ error' = ErrMsg("zones")
       /\ zones' = <<>>
       /\ refresh_age' = 0

refresh_zones(z) ==
  IF z.ok
  THEN /\ zones' = z.zones
       /\ connected' = TRUE
       /\ error' = None
       /\ refresh_age' = 0          \* App::mark_refreshed
  ELSE /\ connected' = FALSE
       /\ error' = ErrMsg("zones")
       /\ UNCHANGED <<zones, refresh_age>>

(***************************************************************************)
(* app.rs: the selection moves, on one index.                              *)
(***************************************************************************)
\* a select_up that never moves
select_up_index_stuck(i) == i

\* the body of each arm of App::select_up
select_up_index(i) == IF i > 0 THEN i - 1 ELSE i

\* select_down without the saturation at the last index
select_down_index_unchecked(i, len) == i + 1

\* the body of each arm of App::select_down; len is the length of the list
select_down_index(i, len) == IF i < saturating_sub(len, 1) THEN i + 1 ELSE i

(***************************************************************************)
(* main.rs: handle_action, the parts that compute a new BrowseState.       *)
(***************************************************************************)
\* usize::to_string: the decimal numeral of n, as the sequence of its digits
Digits == <<"0", "1", "2", "3", "4", "5", "6", "7", "8", "9">>

RECURSIVE to_string(_)
to_string(n) ==
  IF n < 10 THEN <<Digits[n + 1]>>
  ELSE Append(to_string(n \div 10), Digits[(n % 10) + 1])

\* a select that sends the internal index as it is
select_arg_zero_based(index) == index

\* roon::select: the internal 0-based index is sent 1-based
select_arg(index) == index + 1

\* a BrowseSelect that does not recognise the "message" result
is_message_never(result) == FALSE

\* BrowseSelect: result.action.as_deref() == Some("message")
is_message(result) == result.action = "message"

\* BrowseSelect, the branch that loads the new listing into `state`
apply_select(state, index, result) ==
  LET pushed == IF Get(state.items, index) # NoneR
                THEN Append(state.breadcrumbs, Get(state.items, index)[1].title)
                ELSE state.breadcrumbs
      len == Len(pushed)
      titled == IF result.title # None /\ len > 0
                THEN [pushed EXCEPT ![len] = result.title]
                ELSE pushed
  IN [state EXCEPT !.breadcrumbs = titled, !.items = result.items,
                   !.selected_index = 0, !.error = None]

\* the root test off by one: `< 1`
at_root_off_by_one(state) == Len(state.breadcrumbs) < 1

\* a root test that never holds
at_root_never(state) == FALSE

\* BrowseBack: state.breadcrumbs.len() <= 1
at_root(state) == Len(state.breadcrumbs) <= 1

\* the Ok branch of back without the pop
apply_back_no_pop(state, result) ==
  [state EXCEPT !.items = result.items, !.selected_index = 0, !.error = None]

\* BrowseBack, the Ok branch of roon::back()
apply_back(state, result) ==
  [state EXCEPT !.breadcrumbs = SubSeq(state.breadcrumbs, 1, Len(state.breadcrumbs) - 1),
                !.items = result.items, !.selected_index = 0, !.error = None]

\* SwitchToBrowse, after browse.reset(), the Ok branch of roon::browse()
apply_browse(state, result) ==
  [state EXCEPT !.items = result.items, !.selected_index = 0,
                !.breadcrumbs = IF result.title # None THEN <<result.title>>
                                ELSE <<"Library">>,
                !.loading = FALSE, !.error = None]

\* the Ok branch of roon::search() that stays in input mode
apply_search_stay_in_input(s, result) ==
  [s EXCEPT !.results.items = result.items, !.results.selected_index = 0,
            !.results.breadcrumbs = IF result.title # None THEN <<result.title>>
                                    ELSE <<"Search">>,
            !.results.error = None]

\* SearchSubmit, the Ok branch of roon::search()
apply_search(s, result) ==
  [s EXCEPT !.results.items = result.items, !.results.selected_index = 0,
            !.results.breadcrumbs = IF result.title # None THEN <<result.title>>
                                    ELSE <<"Search">>,
            !.results.error = None, !.input_active = FALSE]

(***************************************************************************)
(* One keystroke: the select! arm of run_app that reads a key press, calls *)
(* handle_key and then handle_action.  Key(key, t) is the part every       *)
(* keystroke shares, for a key that handle_key maps to the Action t.       *)
(***************************************************************************)
Key(key, t) ==
  /\ pc = "top"
  /\ handle_key(key).type = t
  /\ action' = handle_key(key)
  /\ pc' = "poll"
  /\ UNCHANGED <<terminal, poll_age, chan, fetches, late_art>>

\* Action::Quit
Quit(key) ==
  /\ Key(key, "Quit")
  /\ should_quit' = TRUE
  /\ calls' = <<>>
  /\ UNCHANGED <<view, popup, zoneVars, selected_zone_index, zone_selector_index,
                 artVars, browse, search>>

\* App::show_popup
show_popup(p) ==
  /\ zone_selector_index' = IF p = "ZoneSelector" THEN selected_zone_index
                            ELSE zone_selector_index
  /\ popup' = p

\* Action::ShowHelp
ShowHelp(key) ==
  /\ Key(key, "ShowHelp")
  /\ show_popup("Help")
  /\ calls' = <<>>
  /\ UNCHANGED <<should_quit, view, zoneVars, selected_zone_index, artVars, browse, search>>

\* Action::ShowZoneSelector
ShowZoneSelector(key) ==
  /\ Key(key, "ShowZoneSelector")
  /\ show_popup("ZoneSelector")
  /\ calls' = <<>>
  /\ UNCHANGED <<should_quit, view, zoneVars, selected_zone_index, artVars, browse, search>>

\* Action::ClosePopup (App::close_popup)
ClosePopup(key) ==
  /\ Key(key, "ClosePopup")
  /\ popup' = None
  /\ calls' = <<>>
  /\ UNCHANGED <<should_quit, view, zoneVars, selected_zone_index, zone_selector_index,
                 artVars, browse, search>>

\* a select_up that moves the browse selection whatever the view
handle_SelectUp_any_view ==
  /\ calls' = <<>>
  /\ IF popup = "ZoneSelector"
     THEN /\ zone_selector_index' = select_up_index(zone_selector_index)
          /\ UNCHANGED <<browse, search>>
     ELSE /\ browse' = [browse EXCEPT !.selected_index = select_up_index(@)]
          /\ UNCHANGED <<search, zone_selector_index>>
  /\ UNCHANGED <<should_quit, view, popup, zoneVars, selected_zone_index, artVars>>

\* handle_action's arm Action::SelectUp (App::select_up)
handle_SelectUp ==
  /\ calls' = <<>>
  /\ IF popup = "ZoneSelector"
     THEN /\ zone_selector_index' = select_up_index(zone_selector_index)
          /\ UNCHANGED <<browse, search>>
     ELSE /\ browse' = IF view = "Browse"
                       THEN [browse EXCEPT !.selected_index = select_up_index(@)]
                       ELSE browse
          /\ search' = IF view = "Search"
                       THEN [search EXCEPT !.results.selected_index = select_up_index(@)]
                       ELSE search
          /\ UNCHANGED zone_selector_index
  /\ UNCHANGED <<should_quit, view, popup, zoneVars, selected_zone_index, artVars>>

\* Action::SelectUp
SelectUp(key) == Key(key, "SelectUp") /\ handle_SelectUp

\* handle_action's arm Action::SelectDown (App::select_down)
handle_SelectDown ==
  /\ calls' = <<>>
  /\ IF popup = "ZoneSelector"
     THEN /\ zone_selector_index' = select_down_index(zone_selector_index, Len(zones))
          /\ UNCHANGED <<browse, search>>
     ELSE /\ browse' = IF view = "Browse"
                       THEN [browse EXCEPT !.selected_index =
                                             select_down_index(@, Len(browse.items))]
                       ELSE browse
          /\ search' = IF view = "Search"
                       THEN [search EXCEPT !.results.selected_index =
                                             select_down_index(@, Len(search.results.items))]
                       ELSE search
          /\ UNCHANGED zone_selector_index
  /\ UNCHANGED <<should_quit, view, popup, zoneVars, selected_zone_index, artVars>>

\* Action::SelectDown
SelectDown(key) == Key(key, "SelectDown") /\ handle_SelectDown

\* select_zone without the test of the index
select_zone_unchecked ==
  /\ selected_zone_index' = zone_selector_index
  /\ album_art' = None
  /\ album_art_url' = None
  /\ popup' = None

\* select_zone without clear_album_art
select_zone_keep_art ==
  IF zone_selector_index < Len(zones)
  THEN /\ selected_zone_index' = zone_selector_index
       /\ popup' = None
       /\ UNCHANGED <<album_art, album_art_url>>
  ELSE UNCHANGED <<selected_zone_index, album_art, album_art_url, popup>>

\* App::select_zone
select_zone ==
  IF zone_selector_index < Len(zones)
  THEN /\ selected_zone_index' = zone_selector_index
       /\ album_art' = None             \* App::clear_album_art
       /\ album_art_url' = None
       /\ popup' = None                 \* App::close_popup
  ELSE UNCHANGED <<selected_zone_index, album_art, album_art_url, popup>>

\* a SelectZone that gives up when set_zone fails, reporting the failure
SelectZone_abort_on_failure(key, Z) ==
  /\ Key(key, "SelectZone")
  /\ \E u \in UnitResults, z \in Z :
       IF get_selected_zone_name # None /\ ~u.ok
       THEN /\ calls' = <<Call("zone set", get_selected_zone_name, 0, u)>>
            /\ error' = ErrMsg("zone set")
            /\ UNCHANGED <<zones, connected, refresh_age, selected_zone_index,
                           album_art, album_art_url, popup>>
       ELSE /\ calls' = IF get_selected_zone_name # None
                        THEN <<Call("zone set", get_selected_zone_name, 0, u),
                               ZonesCall(z)>>
                        ELSE <<ZonesCall(z)>>
            /\ refresh_zones(z)
            /\ select_zone
  /\ UNCHANGED <<should_quit, view, zone_selector_index, browse, search>>

\* Action::SelectZone; get_zones answers with one of Z
SelectZone(key, Z) ==
  /\ Key(key, "SelectZone")
  /\ \E u \in UnitResults, z \in Z :
       /\ calls' = IF get_selected_zone_name # None
                   THEN <<Call("zone set", get_selected_zone_name, 0, u), ZonesCall(z)>>
                   ELSE <<ZonesCall(z)>>
       /\ refresh_zones(z)
  /\ select_zone
  /\ UNCHANGED <<should_quit, view, zone_selector_index, browse, search>>

(***************************************************************************)
(* Playback controls: one controller call, then refresh_zones.             *)
(***************************************************************************)
\* the frame of a handler that changes nothing but what refresh_zones sets
OnlyRefresh ==
  UNCHANGED <<should_quit, view, popup, selected_zone_index, zone_selector_index,
              artVars, browse, search>>

\* Action::PlayPause
PlayPause(key, Z) ==
  /\ Key(key, "PlayPause")
  /\ \E u \in UnitResults, z \in Z :
       /\ calls' = <<Call("playpause", "", 0, u), ZonesCall(z)>>
       /\ refresh_zones(z)
  /\ OnlyRefresh

\* a NextTrack that does not refresh the zones
NextTrack_no_refresh(key, Z) ==
  /\ Key(key, "NextTrack")
  /\ \E u \in UnitResults : calls' = <<Call("next", "", 0, u)>>
  /\ UNCHANGED zoneVars
  /\ OnlyRefresh

\* Action::NextTrack
NextTrack(key, Z) ==
  /\ Key(key, "NextTrack")
  /\ \E u \in UnitResults, z \in Z :
       /\ calls' = <<Call("next", "", 0, u), ZonesCall(z)>>
       /\ refresh_zones(z)
  /\ OnlyRefresh

\* Action::PrevTrack
PrevTrack(key, Z) ==
  /\ Key(key, "PrevTrack")
  /\ \E u \in UnitResults, z \in Z :
       /\ calls' = <<Call("prev", "", 0, u), ZonesCall(z)>>
       /\ refresh_zones(z)
  /\ OnlyRefresh

\* a setter that sends "on" whatever the bool
on_off_always_on(b) == "on"

\* roon::shuffle / roon::radio: the bool is sent as "on" / "off"
on_off(b) == IF b THEN "on" ELSE "off"

\* Action::ToggleShuffle
ToggleShuffle(key, Z) ==
  LET current == IF current_zone = NoneR THEN FALSE ELSE current_zone[1].settings.shuffle
  IN /\ Key(key, "ToggleShuffle")
     /\ \E u \in UnitResults, z \in Z :
          /\ calls' = <<Call("shuffle", on_off(~current), 0, u), ZonesCall(z)>>
          /\ refresh_zones(z)
     /\ OnlyRefresh

\* a cycle that skips loop_one
next_mode_two_cycle(current) ==
  CASE current = "disabled" -> "loop"
    [] OTHER -> "disabled"

\* CycleLoop: the match on the current loop mode
next_mode(current) ==
  CASE current = "disabled" -> "loop"
    [] current = "loop" -> "loop_one"
    [] OTHER -> "disabled"

\* Action::CycleLoop
CycleLoop(key, Z) ==
  LET current == IF current_zone = NoneR THEN "disabled"
                 ELSE current_zone[1].settings.loop_mode
  IN /\ Key(key, "CycleLoop")
     /\ \E u \in UnitResults, z \in Z :
          /\ calls' = <<Call("loop", next_mode(current), 0, u), ZonesCall(z)>>
          /\ refresh_zones(z)
     /\ OnlyRefresh

\* Action::ToggleRadio
ToggleRadio(key, Z) ==
  LET current == IF current_zone = NoneR THEN FALSE
                 ELSE current_zone[1].settings.auto_radio
  IN /\ Key(key, "ToggleRadio")
     /\ \E u \in UnitResults, z \in Z :
          /\ calls' = <<Call("radio", on_off(~current), 0, u), ZonesCall(z)>>
          /\ refresh_zones(z)
     /\ OnlyRefresh

\* Action::VolumeUp / Action::VolumeDown, with the literal delta
Volume(key, t, delta, Z) ==
  /\ Key(key, t)
  /\ IF first_output_name # None
     THEN \E u \in UnitResults, z \in Z :
            /\ calls' = <<Call("volume " \o delta, first_output_name, 0, u), ZonesCall(z)>>
            /\ refresh_zones(z)
     ELSE /\ calls' = <<>>
          /\ UNCHANGED zoneVars
  /\ OnlyRefresh

VolumeUp(key, Z) == Volume(key, "VolumeUp", "+5", Z)

VolumeDown(key, Z) == Volume(key, "VolumeDown", "-5", Z)

\* an output without a volume record taken as muted
is_muted_by_default(output) ==
  IF output.volume = NoneR THEN TRUE ELSE output.volume[1].is_muted

\* ToggleMute: output.volume.as_ref().map(|v| v.is_muted).unwrap_or(false)
is_muted(output) ==
  IF output.volume = NoneR THEN FALSE ELSE output.volume[1].is_muted

\* Action::ToggleMute
ToggleMute(key, Z) ==
  /\ Key(key, "ToggleMute")
  /\ IF current_zone # NoneR /\ first_output_name # None
     THEN LET output == current_zone[1].outputs[1]
          IN \E u \in UnitResults, z \in Z :
               /\ calls' = <<Call(IF is_muted(output) THEN "unmute" ELSE "mute",
                                  output.display_name, 0, u), ZonesCall(z)>>
               /\ refresh_zones(z)
     ELSE /\ calls' = <<>>
          /\ UNCHANGED zoneVars
  /\ OnlyRefresh

(***************************************************************************)
(* View switching.                                                         *)
(***************************************************************************)
\* Action::SwitchToNowPlaying
SwitchToNowPlaying(key) ==
  /\ Key(key, "SwitchToNowPlaying")
  /\ view' = "NowPlaying"
  /\ calls' = <<>>
  /\ UNCHANGED <<should_quit, popup, zoneVars, selected_zone_index, zone_selector_index,
                 artVars, browse, search>>

\* Action::SwitchToBrowse; browse answers with one of R
SwitchToBrowse(key, R) ==
  /\ Key(key, "SwitchToBrowse")
  /\ view' = "Browse"
  /\ \E r \in R :
       /\ calls' = <<Call("browse", "", 0, r)>>
       /\ browse' = IF r.ok
                    THEN apply_browse(BrowseState_reset(browse), r)
                    ELSE [BrowseState_reset(browse) EXCEPT !.loading = FALSE,
                                                         !.error = ErrMsg("browse")]
  /\ UNCHANGED <<should_quit, popup, zoneVars, selected_zone_index, zone_selector_index,
                 artVars, search>>

\* Action::SwitchToSearch
SwitchToSearch(key) ==
  /\ Key(key, "SwitchToSearch")
  /\ view' = "Search"
  /\ search' = SearchState_reset(search)
  /\ calls' = <<>>
  /\ UNCHANGED <<should_quit, popup, zoneVars, selected_zone_index, zone_selector_index,
                 artVars, browse>>

(***************************************************************************)
(* Browse / search navigation.                                             *)
(***************************************************************************)
\* the BrowseState BrowseSelect and BrowseBack work on in view v
state_of(v) == IF v = "Search" THEN search.results ELSE browse

\* handle_action's arm Action::BrowseSelect; select answers with one of R,
\* get_zones with one of Z
handle_BrowseSelect(R, Z) ==
  /\ IF view = "NowPlaying"
     THEN /\ calls' = <<>>
          /\ UNCHANGED <<view, zoneVars, browse, search>>
     ELSE \E r \in R :
          LET is_search == view = "Search"
              state == state_of(view)
              index == state.selected_index
              sel == Call("select", to_string(select_arg(index)), select_arg(index), r)
          IN IF r.ok /\ is_message(r)
             THEN /\ view' = "NowPlaying"
                  /\ \E z \in Z : /\ refresh_zones(z)
                                  /\ calls' = <<sel, ZonesCall(z)>>
                  /\ UNCHANGED <<browse, search>>
             ELSE /\ calls' = <<sel>>
                  \* the stack is explored up to MaxDepth crumbs
                  /\ (r.ok /\ Get(state.items, index) # NoneR)
                       => Len(state.breadcrumbs) < MaxDepth
                  /\ LET new == IF r.ok THEN apply_select(state, index, r)
                                ELSE [state EXCEPT !.error = ErrMsg("select")]
                     IN /\ browse' = IF is_search THEN browse ELSE new
                        /\ search' = IF is_search THEN [search EXCEPT !.results = new]
                                     ELSE search
                  /\ UNCHANGED <<view, zoneVars>>
  /\ UNCHANGED <<should_quit, popup, selected_zone_index, zone_selector_index, artVars>>

\* Action::BrowseSelect
BrowseSelect(key, R, Z) == Key(key, "BrowseSelect") /\ handle_BrowseSelect(R, Z)

\* the escape from the search input taken for an empty query only
in_search_input_empty == view = "Search" /\ search.input_active /\ search.query = <<>>

\* BrowseBack in Search view: `if app.search.input_active`
in_search_input == view = "Search" /\ search.input_active

\* handle_action's arm Action::BrowseBack; back answers with one of R
handle_BrowseBack(R) ==
  /\ IF view = "NowPlaying"
     THEN /\ calls' = <<>>
          /\ UNCHANGED <<view, browse, search>>
     ELSE IF in_search_input
     THEN /\ view' = "NowPlaying"
          /\ calls' = <<>>
          /\ UNCHANGED <<browse, search>>
     ELSE LET state == state_of(view)
          IN IF at_root(state)
             THEN /\ view' = "NowPlaying"
                  /\ calls' = <<>>
                  /\ UNCHANGED <<browse, search>>
             ELSE \E r \in R :
                  /\ calls' = <<Call("back", "", 0, r)>>
                  /\ IF r.ok
                     THEN /\ browse' = IF view = "Search" THEN browse
                                       ELSE apply_back(state, r)
                          /\ search' = IF view = "Search"
                                       THEN [search EXCEPT !.results = apply_back(state, r)]
                                       ELSE search
                          /\ UNCHANGED view
                     ELSE /\ view' = "NowPlaying"
                          /\ UNCHANGED <<browse, search>>
  /\ UNCHANGED <<should_quit, popup, zoneVars, selected_zone_index, zone_selector_index,
                 artVars>>

\* Action::BrowseBack
BrowseBack(key, R) == Key(key, "BrowseBack") /\ handle_BrowseBack(R)

\* the frame of a handler that changes the search state alone
OnlySearch ==
  UNCHANGED <<should_quit, view, popup, zoneVars, selected_zone_index,
              zone_selector_index, artVars, browse>>

\* Action::SearchChar(c)
SearchChar(key) ==
  /\ Key(key, "SearchChar")
  /\ Len(search.query) < MaxQuery
  /\ search' = [search EXCEPT !.query = Append(@, handle_key(key).ch)]
  /\ calls' = <<>>
  /\ OnlySearch

\* Action::SearchBackspace (String::pop)
SearchBackspace(key) ==
  /\ Key(key, "SearchBackspace")
  /\ search' = [search EXCEPT !.query = IF @ = <<>> THEN @ ELSE SubSeq(@, 1, Len(@) - 1)]
  /\ calls' = <<>>
  /\ OnlySearch

\* Action::SearchSubmit; search answers with one of R
SearchSubmit(key, R) ==
  /\ Key(key, "SearchSubmit")
  /\ IF search.query # <<>>
     THEN \E r \in R :
          /\ calls' = <<Call("search", search.query, 0, r)>>
          /\ search' = IF r.ok THEN apply_search(search, r)
                       ELSE [search EXCEPT !.results.error = ErrMsg("search"),
                                           !.input_active = FALSE]
     ELSE /\ calls' = <<>>
          /\ UNCHANGED search
  /\ OnlySearch

\* Action::SearchActivate
SearchActivate(key) ==
  /\ Key(key, "SearchActivate")
  /\ search' = [search EXCEPT !.input_active = TRUE]
  /\ calls' = <<>>
  /\ OnlySearch

\* Action::None
NoAction(key) ==
  /\ Key(key, "None")
  /\ calls' = <<>>
  /\ UNCHANGED <<should_quit, view, popup, zoneVars, selected_zone_index,
                 zone_selector_index, artVars, browse, search>>

(***************************************************************************)
(* main.rs: run_app, the steps of the loop other than a keystroke.         *)
(***************************************************************************)
\* the value of `action` after a step that dispatches no keystroke
NoKey == [type |-> "-", ch |-> ""]

\* "Initial data fetch": refresh_zones before the loop is entered
InitialRefresh(Z) ==
  /\ pc = "init"
  /\ \E z \in Z : /\ refresh_zones(z)
                  /\ calls' = <<ZonesCall(z)>>
  /\ pc' = "top"
  /\ UNCHANGED <<should_quit, view, popup, selected_zone_index, zone_selector_index,
                 artVars, browse, search, terminal, poll_age, chan, fetches, late_art,
                 action>>

\* the select! arm `Some(msg) = art_rx.recv()`: App::set_album_art
ArtRecv ==
  /\ pc = "top"
  /\ chan # <<>>
  /\ album_art' = Head(chan)
  /\ album_art_url' = Head(chan)
  /\ late_art' = IF Head(chan) # current_art_url THEN Head(chan) ELSE None
  /\ chan' = Tail(chan)
  /\ pc' = "poll"
  /\ action' = NoKey
  /\ calls' = <<>>
  /\ UNCHANGED <<should_quit, view, popup, zoneVars, selected_zone_index,
                 zone_selector_index, browse, search, terminal, poll_age, fetches>>

\* the select! arm of the 50 ms sleep, and the key arm when no key press is read
Timeout ==
  /\ pc = "top"
  /\ pc' = "poll"
  /\ action' = NoKey
  /\ calls' = <<>>
  /\ UNCHANGED <<should_quit, view, popup, zoneVars, selected_zone_index,
                 zone_selector_index, artVars, browse, search, terminal, poll_age, chan,
                 fetches, late_art>>

\* a periodic refresh whose failure is propagated out of run_app
Poll_propagating(Z) ==
  /\ pc = "poll"
  /\ IF poll_age >= PollTicks
     THEN /\ \E z \in Z : /\ refresh_zones(z)
                          /\ calls' = <<ZonesCall(z)>>
                          /\ pc' = IF z.ok THEN "art" ELSE "failed"
          /\ poll_age' = 0
     ELSE /\ calls' = <<>>
          /\ pc' = "art"
          /\ UNCHANGED <<zoneVars, poll_age>>
  /\ action' = NoKey
  /\ UNCHANGED <<should_quit, view, popup, selected_zone_index, zone_selector_index,
                 artVars, browse, search, terminal, chan, fetches, late_art>>

\* a periodic refresh that fires in every iteration
Poll_unconditional(Z) ==
  /\ pc = "poll"
  /\ \E z \in Z : /\ refresh_zones(z)
                  /\ calls' = <<ZonesCall(z)>>
  /\ poll_age' = 0
  /\ pc' = "art"
  /\ action' = NoKey
  /\ UNCHANGED <<should_quit, view, popup, selected_zone_index, zone_selector_index,
                 artVars, browse, search, terminal, chan, fetches, late_art>>

\* `if last_poll.elapsed() >= poll_interval { refresh_zones(app); last_poll = now }`
Poll(Z) ==
  /\ pc = "poll"
  /\ IF poll_age >= PollTicks
     THEN /\ \E z \in Z : /\ refresh_zones(z)
                          /\ calls' = <<ZonesCall(z)>>
          /\ poll_age' = 0
     ELSE /\ calls' = <<>>
          /\ UNCHANGED <<zoneVars, poll_age>>
  /\ pc' = "art"
  /\ action' = NoKey
  /\ UNCHANGED <<should_quit, view, popup, selected_zone_index, zone_selector_index,
                 artVars, browse, search, terminal, chan, fetches, late_art>>

\* the fetch tasks in flight
InFlight == fetches["u1"] + fetches["u2"]

\* an art check that drops the cache when the active zone has no art URL
ArtCheck_clears_without_url ==
  /\ pc = "art"
  /\ IF album_art_url_if_changed # None
     THEN /\ InFlight < MaxFetches
          /\ album_art_url' = album_art_url_if_changed
          /\ fetches' = [fetches EXCEPT ![album_art_url_if_changed] = @ + 1]
          /\ late_art' = None
          /\ album_art' = album_art
     ELSE /\ album_art' = IF current_art_url = None THEN None ELSE album_art
          /\ album_art_url' = IF current_art_url = None THEN None ELSE album_art_url
          /\ UNCHANGED <<fetches, late_art>>
  /\ pc' = IF should_quit THEN "done" ELSE "top"
  /\ action' = NoKey
  /\ calls' = <<>>
  /\ UNCHANGED <<should_quit, view, popup, zoneVars, selected_zone_index,
                 zone_selector_index, browse, search, terminal, poll_age, chan>>

\* an art check that spawns the fetch without storing the URL
ArtCheck_no_store ==
  /\ pc = "art"
  /\ IF album_art_url_if_changed # None
     THEN /\ InFlight < MaxFetches
          /\ fetches' = [fetches EXCEPT ![album_art_url_if_changed] = @ + 1]
          /\ late_art' = None
     ELSE UNCHANGED <<fetches, late_art>>
  /\ pc' = IF should_quit THEN "done" ELSE "top"
  /\ action' = NoKey
  /\ calls' = <<>>
  /\ UNCHANGED <<should_quit, view, popup, zoneVars, selected_zone_index,
                 zone_selector_index, artVars, browse, search, terminal, poll_age,
                 chan>>

\* the end of an iteration that does not test the quit flag
ArtCheck_no_quit_test ==
  /\ pc = "art"
  /\ IF album_art_url_if_changed # None
     THEN /\ InFlight < MaxFetches
          /\ album_art_url' = album_art_url_if_changed
          /\ fetches' = [fetches EXCEPT ![album_art_url_if_changed] = @ + 1]
          /\ late_art' = None
     ELSE UNCHANGED <<album_art_url, fetches, late_art>>
  /\ pc' = "top"
  /\ action' = NoKey
  /\ calls' = <<>>
  /\ UNCHANGED <<should_quit, view, popup, zoneVars, selected_zone_index,
                 zone_selector_index, album_art, browse, search, terminal, poll_age,
                 chan>>

\* `if let Some(url) = app.album_art_url_if_changed()`: store the URL, spawn the
\* fetch; then `if app.should_quit { return Ok(()) }`
ArtCheck ==
  /\ pc = "art"
  /\ IF album_art_url_if_changed # None
     THEN /\ InFlight < MaxFetches
          /\ album_art_url' = album_art_url_if_changed
          /\ fetches' = [fetches EXCEPT ![album_art_url_if_changed] = @ + 1]
          /\ late_art' = None
     ELSE UNCHANGED <<album_art_url, fetches, late_art>>
  /\ pc' = IF should_quit THEN "done" ELSE "top"
  /\ action' = NoKey
  /\ calls' = <<>>
  /\ UNCHANGED <<should_quit, view, popup, zoneVars, selected_zone_index,
                 zone_selector_index, album_art, browse, search, terminal, poll_age,
                 chan>>

\* a fetch task that stores its image in the App instead of sending it
FetchOk_writes_app(u) ==
  /\ pc # "done"
  /\ fetches[u] > 0
  /\ album_art' = u
  /\ fetches' = [fetches EXCEPT ![u] = @ - 1]
  /\ UNCHANGED <<should_quit, view, popup, zoneVars, selected_zone_index,
                 zone_selector_index, album_art_url, browse, search, pc, terminal,
                 poll_age, chan, late_art, action, calls>>

\* a detached fetch task fetches and decodes its image and sends it
FetchOk(u) ==
  /\ pc # "done"
  /\ fetches[u] > 0
  /\ Len(chan) < ChannelCapacity
  /\ chan' = Append(chan, u)
  /\ fetches' = [fetches EXCEPT ![u] = @ - 1]
  /\ UNCHANGED <<should_quit, view, popup, zoneVars, selected_zone_index,
                 zone_selector_index, artVars, browse, search, pc, terminal, poll_age,
                 late_art, action, calls>>

\* a failing fetch task that drops the cached image
FetchFail_clears_art(u) ==
  /\ pc # "done"
  /\ fetches[u] > 0
  /\ fetches' = [fetches EXCEPT ![u] = @ - 1]
  /\ album_art' = None
  /\ UNCHANGED <<should_quit, view, popup, zoneVars, selected_zone_index,
                 zone_selector_index, album_art_url, browse, search, pc, terminal,
                 poll_age, chan, late_art, action, calls>>

\* a detached fetch task fails (HTTP, body or decode error) and sends nothing
FetchFail(u) ==
  /\ pc # "done"
  /\ fetches[u] > 0
  /\ fetches' = [fetches EXCEPT ![u] = @ - 1]
  /\ UNCHANGED <<should_quit, view, popup, zoneVars, selected_zone_index,
                 zone_selector_index, artVars, browse, search, pc, terminal, poll_age,
                 chan, late_art, action, calls>>

\* time passes: both Instants age by one tick
Tick ==
  /\ pc \in {"init", "top", "poll", "art"}
  /\ poll_age < PollTicks \/ refresh_age < MaxAge
  /\ poll_age' = Min(poll_age + 1, PollTicks)
  /\ refresh_age' = Min(refresh_age + 1, MaxAge)
  /\ UNCHANGED <<should_quit, view, popup, connected, error, zones,
                 selected_zone_index, zone_selector_index, artVars, browse, search,
                 pc, terminal, chan, fetches, late_art, action, calls>>

(***************************************************************************)
(* main.rs: main.  `terminal` holds the two process-wide terminal modes,   *)
(* the teardown calls main has made, run_app's result and main's result.   *)
(***************************************************************************)
\* the terminal before main touches it
TerminalStart == [raw_mode |-> FALSE, alternate_screen |-> FALSE, restore |-> <<>>,
                  run_app |-> "Ok", result |-> "running"]

\* the terminal when run_app is entered: setup has succeeded
TerminalReady == [TerminalStart EXCEPT !.raw_mode = TRUE, !.alternate_screen = TRUE]

(***************************************************************************)
(* App::new(), and run_app up to its initial refresh.                      *)
(***************************************************************************)
Init ==
  /\ should_quit = FALSE
  /\ view = "NowPlaying"
  /\ popup = None
  /\ connected = FALSE
  /\ error = None
  /\ zones = <<>>
  /\ selected_zone_index = 0
  /\ zone_selector_index = 0
  /\ album_art = None
  /\ album_art_url = None
  /\ refresh_age = 0
  /\ browse = BrowseStateDefault
  /\ search = SearchStateDefault
  /\ pc = "init"
  /\ terminal = TerminalReady
  /\ poll_age = 0
  /\ chan = <<>>
  /\ fetches = [u \in URLs |-> 0]
  /\ late_art = None
  /\ action = NoKey
  /\ calls = <<>>

(***************************************************************************)
(* The library navigation in the Browse view and in the Search view, with  *)
(* a controller that answers browse, search, select and back with any of   *)
(* NavResults and reports no zone.  Time does not pass.  A run explores    *)
(* one of the two views: SwitchToBrowse resets the browse state and        *)
(* SwitchToSearch the search state, so the state of the view that is left  *)
(* is never read again, and a run that has a result loaded in one view     *)
(* does not open the other.                                                *)
(***************************************************************************)
ItemLists == {<<>>, <<Item("A")>>, <<Item("A"), Item("B")>>}
Titles == {None, "T"}
NavResults == {BrowseErr, BrowseOk("message", <<>>, None)}
              \cup {BrowseOk(a, is, t) : a \in {None, "list"}, is \in ItemLists, t \in Titles}

KeysNav == {CharKey("1"), CharKey("2"), CharKey("/"), CtrlKey("c"),
            CodeKey("Up"), CodeKey("Down"), CodeKey("Enter"), CodeKey("Esc"),
            CodeKey("Backspace"), CodeKey("Tab")}
ZoneResultsNav == {ZonesErr, ZonesOk(<<>>)}

NextNav ==
  \/ InitialRefresh(ZoneResultsNav)
  \/ \E key \in KeysNav : Quit(key)
  \/ \E key \in KeysNav : SelectUp(key)
  \/ \E key \in KeysNav : SelectDown(key)
  \/ \E key \in KeysNav : SwitchToNowPlaying(key)
  \/ \E key \in KeysNav : search = SearchStateDefault /\ SwitchToBrowse(key, NavResults)
  \/ \E key \in KeysNav : browse = BrowseStateDefault /\ SwitchToSearch(key)
  \/ \E key \in KeysNav : BrowseSelect(key, NavResults, ZoneResultsNav)
  \/ \E key \in KeysNav : BrowseBack(key, NavResults)
  \/ \E key \in KeysNav : SearchChar(key)
  \/ \E key \in KeysNav : SearchBackspace(key)
  \/ \E key \in KeysNav : SearchSubmit(key, NavResults)
  \/ \E key \in KeysNav : SearchActivate(key)
  \/ \E key \in KeysNav : NoAction(key)
  \/ Timeout
  \/ Poll(ZoneResultsNav)
  \/ ArtCheck

SpecNav == Init /\ [][NextNav]_vars

(***************************************************************************)
(* The zones, the popups, the album art and the clock, with a controller   *)
(* that reports up to two zones and holds no library: it answers browse    *)
(* and select with a failure or with the "message" result.  The Search     *)
(* view is not opened.                                                     *)
(***************************************************************************)
ZoneLists == {<<>>, <<Kitchen>>, <<Kitchen, Office>>}
ZoneResults == {ZonesErr} \cup {ZonesOk(zs) : zs \in ZoneLists}
NoLibraryResults == {BrowseErr, BrowseOk("message", <<>>, None)}

KeysZones == {CharKey("?"), CharKey("z"), CharKey("q"), CharKey(" "), CharKey("1"),
              CharKey("2"), CtrlKey("c"), CodeKey("Up"), CodeKey("Down"),
              CodeKey("Enter"), CodeKey("Esc"), CodeKey("Tab")}

NextZones ==
  \/ InitialRefresh(ZoneResults)
  \/ \E key \in KeysZones : Quit(key)
  \/ \E key \in KeysZones : ShowHelp(key)
  \/ \E key \in KeysZones : ShowZoneSelector(key)
  \/ \E key \in KeysZones : ClosePopup(key)
  \/ \E key \in KeysZones : SelectUp(key)
  \/ \E key \in KeysZones : SelectDown(key)
  \/ \E key \in KeysZones : SelectZone(key, ZoneResults)
  \/ \E key \in KeysZones : PlayPause(key, ZoneResults)
  \/ \E key \in KeysZones : SwitchToNowPlaying(key)
  \/ \E key \in KeysZones : SwitchToBrowse(key, NoLibraryResults)
  \/ \E key \in KeysZones : BrowseSelect(key, NoLibraryResults, ZoneResults)
  \/ \E key \in KeysZones : BrowseBack(key, NoLibraryResults)
  \/ \E key \in KeysZones : NoAction(key)
  \/ ArtRecv
  \/ Timeout
  \/ Poll(ZoneResults)
  \/ ArtCheck
  \/ \E u \in URLs : FetchOk(u)
  \/ \E u \in URLs : FetchFail(u)
  \/ Tick

SpecZones == Init /\ [][NextZones]_vars

(***************************************************************************)
(* The playback controls and the progress of the track in the Now Playing  *)
(* view, with a controller that reports one zone at a time: any of the     *)
(* loop modes and of the shuffle and radio settings, a track at several    *)
(* positions (before, at and past its length, a length of 0), playing or   *)
(* paused, no track, a muted output, no output, or no zone at all.         *)
(***************************************************************************)
LoopModes == {"disabled", "loop", "loop_one"}

\* Kitchen with other ZoneSettings
WithSettings(mode, shuffle, radio) ==
  [Kitchen EXCEPT !.settings = [loop_mode |-> mode, shuffle |-> shuffle,
                                auto_radio |-> radio]]

\* Kitchen in another playback state, at another position of another track
WithTrack(state, seek, length) ==
  [Kitchen EXCEPT !.state = state,
                  !.now_playing = Some([album_art_url |-> None, seek_position |-> seek,
                                        length |-> length])]

\* Kitchen with its output muted
Muted == [Kitchen EXCEPT !.outputs[1].volume = Some([is_muted |-> TRUE])]

\* Kitchen grouped with a second output
TwoOutputs ==
  [Kitchen EXCEPT !.outputs = Append(@, [display_name |-> "Headphones", volume |-> NoneR])]

\* Kitchen with an output that has no volume record
NoVolume == [Kitchen EXCEPT !.outputs[1].volume = NoneR]

PlaybackZones ==
  {WithSettings(m, FALSE, FALSE) : m \in LoopModes}
  \cup {WithSettings("disabled", TRUE, FALSE), WithSettings("disabled", FALSE, TRUE)}
  \cup {WithTrack("playing", p[1], p[2]) : p \in {<<0, 2>>, <<1, 2>>, <<3, 2>>, <<0, 0>>,
                                                  <<-1, 2>>}}
  \cup {WithTrack("paused", p[1], p[2]) : p \in {<<1, 2>>, <<3, 2>>}}
  \cup {Muted, NoVolume, TwoOutputs, Office}

PlaybackResults == {ZonesErr, ZonesOk(<<>>)} \cup {ZonesOk(<<z>>) : z \in PlaybackZones}

KeysPlayback == {CharKey(" "), CharKey("n"), CharKey("p"), CharKey("s"), CharKey("l"), CharKey("r"),
                 CharKey("+"), CharKey("-"), CharKey("m"), CodeKey("Tab")}

NextPlayback ==
  \/ InitialRefresh(PlaybackResults)
  \/ \E key \in KeysPlayback : PlayPause(key, PlaybackResults)
  \/ \E key \in KeysPlayback : NextTrack(key, PlaybackResults)
  \/ \E key \in KeysPlayback : PrevTrack(key, PlaybackResults)
  \/ \E key \in KeysPlayback : ToggleShuffle(key, PlaybackResults)
  \/ \E key \in KeysPlayback : CycleLoop(key, PlaybackResults)
  \/ \E key \in KeysPlayback : ToggleRadio(key, PlaybackResults)
  \/ \E key \in KeysPlayback : VolumeUp(key, PlaybackResults)
  \/ \E key \in KeysPlayback : VolumeDown(key, PlaybackResults)
  \/ \E key \in KeysPlayback : ToggleMute(key, PlaybackResults)
  \/ \E key \in KeysPlayback : NoAction(key)
  \/ Timeout
  \/ Poll(PlaybackResults)
  \/ ArtCheck
  \/ Tick

SpecPlayback == Init /\ [][NextPlayback]_vars

(***************************************************************************)
(* The album art: the fetch tasks, the channel and the cache, with a       *)
(* controller that reports a zone playing a track with one art URL, the    *)
(* next track with another, a track without art, or that zone next to one  *)
(* that plays nothing; the zone selector switches between the zones.       *)
(***************************************************************************)
\* Kitchen playing another track, with another art URL
KitchenNext == [Kitchen EXCEPT !.now_playing[1].album_art_url = "u2"]

\* Kitchen playing a track without an art URL
KitchenNoArt == WithTrack("playing", 0, 2)

ArtZoneLists == {<<Kitchen>>, <<KitchenNext>>, <<KitchenNoArt>>, <<Kitchen, Office>>}
ArtResults == {ZonesErr} \cup {ZonesOk(zs) : zs \in ArtZoneLists}

KeysArt == {CharKey("z"), CodeKey("Up"), CodeKey("Down"), CodeKey("Enter")}

NextArt ==
  \/ InitialRefresh(ArtResults)
  \/ \E key \in KeysArt : ShowZoneSelector(key)
  \/ \E key \in KeysArt : SelectUp(key)
  \/ \E key \in KeysArt : SelectDown(key)
  \/ \E key \in KeysArt : SelectZone(key, ArtResults)
  \/ ArtRecv
  \/ Timeout
  \/ Poll(ArtResults)
  \/ ArtCheck
  \/ \E u \in URLs : FetchOk(u)
  \/ \E u \in URLs : FetchFail(u)
  \/ Tick

SpecArt == Init /\ [][NextArt]_vars

(***************************************************************************)
(* main.rs: main around run_app.  Each terminal call may fail; a failure   *)
(* under `?` returns from main at once.                                    *)
(***************************************************************************)
\* the frame of a step of main: the App and run_app's locals are untouched
OnlyMain ==
  UNCHANGED <<should_quit, view, popup, zoneVars, selected_zone_index,
              zone_selector_index, artVars, browse, search, poll_age, chan, fetches,
              late_art, action, calls>>

\* `enable_raw_mode()?`
EnableRawMode ==
  /\ pc = "main"
  /\ \E ok \in BOOLEAN :
       IF ok
       THEN /\ terminal' = [terminal EXCEPT !.raw_mode = TRUE]
            /\ pc' = "alt"
       ELSE /\ terminal' = [terminal EXCEPT !.result = "Err"]
            /\ pc' = "exit"
  /\ OnlyMain

\* `execute!(stdout, EnterAlternateScreen)?`
EnterAlternateScreen ==
  /\ pc = "alt"
  /\ \E ok \in BOOLEAN :
       IF ok
       THEN /\ terminal' = [terminal EXCEPT !.alternate_screen = TRUE]
            /\ pc' = "term"
       ELSE /\ terminal' = [terminal EXCEPT !.result = "Err"]
            /\ pc' = "exit"
  /\ OnlyMain

\* `Terminal::new(backend)?`, then App::new() and the call of run_app
NewTerminal ==
  /\ pc = "term"
  /\ \E ok \in BOOLEAN :
       IF ok
       THEN /\ pc' = "init"
            /\ UNCHANGED terminal
       ELSE /\ terminal' = [terminal EXCEPT !.result = "Err"]
            /\ pc' = "exit"
  /\ OnlyMain

\* run_app returns an error: `terminal.draw(..)?`, `event::poll(..)?` or
\* `event::read()?` fails
LoopError ==
  /\ pc = "top"
  /\ pc' = "failed"
  /\ terminal' = [terminal EXCEPT !.run_app = "Err"]
  /\ OnlyMain

\* `disable_raw_mode()?`, after run_app has returned
DisableRawMode ==
  /\ pc \in {"done", "failed"}
  /\ \E ok \in BOOLEAN :
       IF ok
       THEN /\ terminal' = [terminal EXCEPT !.raw_mode = FALSE,
                                            !.restore = Append(@, "disable_raw_mode")]
            /\ pc' = "leave"
       ELSE /\ terminal' = [terminal EXCEPT !.result = "Err",
                                            !.restore = Append(@, "disable_raw_mode")]
            /\ pc' = "exit"
  /\ OnlyMain

\* `execute!(terminal.backend_mut(), LeaveAlternateScreen)?`
LeaveAlternateScreen ==
  /\ pc = "leave"
  /\ \E ok \in BOOLEAN :
       IF ok
       THEN /\ terminal' = [terminal EXCEPT !.alternate_screen = FALSE,
                                            !.restore = Append(@, "LeaveAlternateScreen")]
            /\ pc' = "cursor"
       ELSE /\ terminal' = [terminal EXCEPT !.result = "Err",
                                            !.restore = Append(@, "LeaveAlternateScreen")]
            /\ pc' = "exit"
  /\ OnlyMain

\* `terminal.show_cursor()?`, the report of run_app's error, and `Ok(())`
ShowCursor ==
  /\ pc = "cursor"
  /\ \E ok \in BOOLEAN :
       terminal' = [terminal EXCEPT !.result = IF ok THEN "Ok" ELSE "Err",
                                    !.restore = Append(@, "show_cursor")]
  /\ pc' = "exit"
  /\ OnlyMain

\* the process at the entry of main
InitMain ==
  /\ should_quit = FALSE
  /\ view = "NowPlaying"
  /\ popup = None
  /\ connected = FALSE
  /\ error = None
  /\ zones = <<>>
  /\ selected_zone_index = 0
  /\ zone_selector_index = 0
  /\ album_art = None
  /\ album_art_url = None
  /\ refresh_age = 0
  /\ browse = BrowseStateDefault
  /\ search = SearchStateDefault
  /\ pc = "main"
  /\ terminal = TerminalStart
  /\ poll_age = 0
  /\ chan = <<>>
  /\ fetches = [u \in URLs |-> 0]
  /\ late_art = None
  /\ action = NoKey
  /\ calls = <<>>

(***************************************************************************)
(* The whole process: main's terminal setup, run_app with the keys that    *)
(* quit and one that does nothing, and main's teardown.                    *)
(***************************************************************************)
KeysMain == {CharKey("q"), CtrlKey("c"), CodeKey("Tab")}

NextMain ==
  \/ EnableRawMode
  \/ EnterAlternateScreen
  \/ NewTerminal
  \/ InitialRefresh(ZoneResultsNav)
  \/ \E key \in KeysMain : Quit(key)
  \/ \E key \in KeysMain : NoAction(key)
  \/ Timeout
  \/ Poll(ZoneResultsNav)
  \/ ArtCheck
  \/ LoopError
  \/ DisableRawMode
  \/ LeaveAlternateScreen
  \/ ShowCursor
  \/ Tick

SpecMain == InitMain /\ [][NextMain]_vars

(***************************************************************************)
(* handle_action as a function of any Action: besides the keystrokes that  *)
(* bring the App into its views and popups, the four navigation actions    *)
(* are applied directly, in whatever state the App is in, as a caller of    *)
(* handle_action(action, app) may; handle_key is not consulted.  The one   *)
(* character typed into the search query is 'a'.                           *)
(***************************************************************************)
\* handle_action(t, app) called from the loop without handle_key
Direct(t) ==
  /\ pc = "top"
  /\ action' = Act(t)
  /\ pc' = "poll"
  /\ UNCHANGED <<terminal, poll_age, chan, fetches, late_art>>

ActionItems == {BrowseErr, BrowseOk(None, <<Item("A"), Item("B")>>, None),
                BrowseOk("message", <<>>, None)}
ActionZones == {ZonesErr, ZonesOk(<<Office>>), ZonesOk(<<Office, WithTrack("paused", 1, 2)>>)}

KeysActions == {CharKey("1"), CharKey("2"), CharKey("/"), CharKey("z"), CharKey("?"),
                CodeKey("Down"), CodeKey("Enter"), CodeKey("Esc")}

NextActions ==
  \/ InitialRefresh(ActionZones)
  \/ \E key \in KeysActions : ShowHelp(key)
  \/ \E key \in KeysActions : ShowZoneSelector(key)
  \/ \E key \in KeysActions : ClosePopup(key)
  \/ \E key \in KeysActions : SelectDown(key)
  \/ \E key \in KeysActions : SelectZone(key, ActionZones)
  \/ \E key \in KeysActions : SwitchToNowPlaying(key)
  \/ \E key \in KeysActions : search = SearchStateDefault /\ SwitchToBrowse(key, ActionItems)
  \/ \E key \in KeysActions : browse = BrowseStateDefault /\ SwitchToSearch(key)
  \/ SearchChar(CharKey("a"))
  \/ \E key \in KeysActions : SearchSubmit(key, ActionItems)
  \/ Direct("SelectUp") /\ handle_SelectUp
  \/ Direct("SelectDown") /\ handle_SelectDown
  \/ Direct("BrowseSelect") /\ handle_BrowseSelect(ActionItems, ActionZones)
  \/ Direct("BrowseBack") /\ handle_BrowseBack(ActionItems)
  \/ Timeout
  \/ Poll(ActionZones)
  \/ ArtCheck

SpecActions == Init /\ [][NextActions]_vars

(***************************************************************************)
(* Properties.                                                             *)
(***************************************************************************)
\* the step that dispatches a keystroke to the Action t
KeyStep(t) == pc = "top" /\ action'.type = t

\* a BrowseState's selection is within its list: below len(items), 0 when empty
InBounds(st) ==
  IF st.items = <<>> THEN st.selected_index = 0
  ELSE st.selected_index < Len(st.items)

\* C1: in every reachable state browse.selected_index and
\* search.results.selected_index are below the length of their item lists, and
\* are 0 when the list is empty.
C1_SelectedIndexInBounds == InBounds(browse) /\ InBounds(search.results)

\* C1's case: a BrowseSelect on the second item (index 1) loaded a one-item list
C1_Witness ==
  /\ action.type = "BrowseSelect"
  /\ view = "Browse"
  /\ calls # <<>> /\ calls[1].n = 2 /\ calls[1].res.ok
  /\ Len(browse.items) = 1
  /\ browse.selected_index = 0

\* C2: in every reachable state both breadcrumb stacks hold at least one crumb.
C2_BreadcrumbsNonEmpty ==
  Len(browse.breadcrumbs) >= 1 /\ Len(search.results.breadcrumbs) >= 1

\* C2's case: a successful BrowseBack popped the stack back to its root
C2_Witness ==
  /\ action.type = "BrowseBack"
  /\ calls # <<>> /\ calls[1].res.ok
  /\ view = "Search"
  /\ Len(search.results.breadcrumbs) = 1

\* the latest step ended with a get_zones call that succeeded
Refreshed == calls # <<>> /\ calls[Len(calls)].op = "zones" /\ calls[Len(calls)].res.ok

\* selected_zone_index is within the zone list, and 0 when the list is empty
ZoneIndexInRange ==
  IF zones = <<>> THEN selected_zone_index = 0
  ELSE selected_zone_index <= Len(zones) - 1

\* C3 (as claimed): after every zone refresh selected_zone_index is at most
\* len(zones)-1 when the list is non-empty and 0 when it is empty, so current_zone()
\* yields a zone if and only if the zone list is non-empty.
C3_ZoneIndexClamped ==
  Refreshed => (ZoneIndexInRange /\ (current_zone # NoneR <=> zones # <<>>))

\* the Actions handle_popup_key can produce
PopupActions == {"ClosePopup", "SelectUp", "SelectDown", "SelectZone", "None"}

\* C4: while a popup is open every key (Ctrl-C, 'q', the view and transport keys
\* included) is dispatched to ClosePopup, SelectUp, SelectDown, SelectZone or None,
\* and no keystroke sets the quit flag, changes the view or changes the browse or
\* search state.
C4_PopupCapturesInput ==
  [][popup # None =>
       /\ \A key \in AllKeys : handle_key(key).type \in PopupActions
       /\ (pc = "top" /\ action' # NoKey) =>
            /\ action'.type \in PopupActions
            /\ should_quit' = should_quit
            /\ view' = view
            /\ browse' = browse
            /\ search' = search]_vars

\* C4's case: in Browse view, with the Help popup open, a key press was
\* dispatched to None
C4_Witness ==
  /\ popup = "Help"
  /\ view = "Browse"
  /\ action.type = "None"
  /\ pc = "poll"

\* the step of a BrowseSelect whose select call succeeded with a result that is
\* not the "message" result
SelectLoaded ==
  /\ KeyStep("BrowseSelect")
  /\ calls' # <<>>
  /\ calls'[1].res.ok
  /\ calls'[1].res.action # "message"

\* the BrowseState of the view the step started in, after the step
state_of_next(v) == IF v = "Search" THEN search'.results ELSE browse'

\* C5 (as claimed): after a BrowseSelect whose select call succeeds with an action
\* other than "message" the active view's breadcrumb stack is the previous stack
\* plus exactly one crumb, the result's title when present and otherwise the
\* selected item's title; items are the result's, selected_index is 0 and error
\* is cleared.
C5_SelectPushesOneCrumb ==
  [][SelectLoaded =>
       LET pre == state_of(view)
           post == state_of_next(view)
           result == calls'[1].res
           item == Get(pre.items, pre.selected_index)
           crumbs == IF result.title # None THEN {result.title}
                     ELSE {item[i].title : i \in DOMAIN item}
       IN /\ \E c \in crumbs : post.breadcrumbs = Append(pre.breadcrumbs, c)
          /\ post.items = result.items
          /\ post.selected_index = 0
          /\ post.error = None]_vars

\* C6: when BrowseSelect's select call returns the "message" result the view
\* becomes NowPlaying, zones are refreshed, and the breadcrumbs, items and
\* selected_index of the browse and search states are unchanged.
C6_MessageSwitchesToNowPlaying ==
  [][(KeyStep("BrowseSelect") /\ calls' # <<>> /\ calls'[1].res.ok
        /\ calls'[1].res.action = "message") =>
       /\ view' = "NowPlaying"
       /\ Len(calls') = 2
       /\ calls'[1].op = "select"
       /\ calls'[2].op = "zones"
       /\ connected' = calls'[2].res.ok
       /\ calls'[2].res.ok => (error' = None /\ refresh_age' = 0)
       /\ browse'.breadcrumbs = browse.breadcrumbs
       /\ browse'.items = browse.items
       /\ browse'.selected_index = browse.selected_index
       /\ search'.results.breadcrumbs = search.results.breadcrumbs
       /\ search'.results.items = search.results.items
       /\ search'.results.selected_index = search.results.selected_index]_vars

\* C6's case: the "message" result arrived one level below the root of Browse
C6_Witness ==
  /\ action.type = "BrowseSelect"
  /\ view = "NowPlaying"
  /\ Len(calls) = 2
  /\ calls[1].res.action = "message"
  /\ Len(browse.breadcrumbs) = 2
  /\ browse.items # <<>>

\* the view is Browse, or Search in results mode
InListView == view = "Browse" \/ (view = "Search" /\ ~search.input_active)

\* C7: BrowseBack in Browse view (or Search results mode) with one breadcrumb
\* switches to NowPlaying, invokes no controller operation and leaves the
\* breadcrumb stacks unchanged.
C7_BackAtRoot ==
  [][(KeyStep("BrowseBack") /\ InListView /\ Len(state_of(view).breadcrumbs) = 1) =>
       /\ view' = "NowPlaying"
       /\ calls' = <<>>
       /\ browse'.breadcrumbs = browse.breadcrumbs
       /\ search'.results.breadcrumbs = search.results.breadcrumbs]_vars

\* C7's case: BrowseBack left the Browse view at the root of a loaded listing
C7_Witness ==
  /\ action.type = "BrowseBack"
  /\ view = "NowPlaying"
  /\ calls = <<>>
  /\ browse.items # <<>>
  /\ Len(browse.breadcrumbs) = 1

\* what C8 says of a BrowseBack step below the root
BackBelowRoot ==
  LET pre == state_of(view)
      post == state_of_next(view)
  IN /\ Len(calls') = 1
     /\ calls'[1].op = "back"
     /\ IF calls'[1].res.ok
        THEN /\ post.breadcrumbs = SubSeq(pre.breadcrumbs, 1, Len(pre.breadcrumbs) - 1)
             /\ post.items = calls'[1].res.items
             /\ post.selected_index = 0
             /\ view' = view
        ELSE /\ view' = "NowPlaying"
             /\ post.breadcrumbs = pre.breadcrumbs
             /\ post.items = pre.items

\* C8 (as claimed): BrowseBack with more than one breadcrumb invokes back exactly
\* once; on success one crumb is popped, items are the result's, selected_index is 0
\* and the view is unchanged; on failure the view becomes NowPlaying and
\* breadcrumbs and items are unchanged.
C8_BackBelowRoot_AsClaimed ==
  [][(KeyStep("BrowseBack") /\ Len(state_of(view).breadcrumbs) > 1) => BackBelowRoot]_vars

\* C8 (amended): the same, for a BrowseBack in Browse view or in Search results
\* mode (input_active = false).
C8_BackBelowRoot ==
  [][(KeyStep("BrowseBack") /\ InListView /\ Len(state_of(view).breadcrumbs) > 1)
       => BackBelowRoot]_vars

\* C8's case: a successful back in Search results mode popped the stack to its root
C8_Witness ==
  /\ action.type = "BrowseBack"
  /\ Len(calls) = 1 /\ calls[1].op = "back" /\ calls[1].res.ok
  /\ view = "Search"
  /\ ~search.input_active
  /\ Len(search.results.breadcrumbs) = 1
  /\ search.results.items # <<>>

C10_SelectZoneCommits ==
  [][/\ (KeyStep("SelectZone") /\ zone_selector_index < Len(zones)) =>
          /\ popup = "ZoneSelector"
          /\ Len(calls') = 2
          /\ calls'[1].op = "zone set"
          /\ calls'[1].arg = zones[zone_selector_index + 1].display_name
          /\ calls'[2].op = "zones"
          /\ selected_zone_index' = zone_selector_index
          /\ album_art' = None
          /\ album_art_url' = None
          /\ popup' = None
          /\ connected' = calls'[2].res.ok
          /\ calls'[2].res.ok => (error' = None /\ refresh_age' = 0)
     /\ KeyStep("ShowZoneSelector") =>
          /\ popup' = "ZoneSelector"
          /\ zone_selector_index' = selected_zone_index]_vars

\* C10's case: SelectZone committed the second zone of the selector
C10_Witness ==
  /\ action.type = "SelectZone"
  /\ Len(calls) = 2
  /\ calls[1].op = "zone set" /\ calls[1].arg = "Office"
  /\ selected_zone_index = 1
  /\ popup = None

\* the step makes a controller call that fails
FailedCall == pc' # pc /\ \E i \in DOMAIN calls' : ~calls'[i].res.ok

\* the positions of run_app's loop
LoopPositions == {"top", "poll", "art"}

\* C11: no controller failure, during an action or during a periodic zone refresh,
\* terminates the event loop or sets the quit flag: the step that makes the failing
\* call leaves should_quit and the terminal alone and ends inside the loop.
C11_FailureKeepsLoopRunning ==
  [][FailedCall =>
       /\ should_quit' = should_quit
       /\ terminal' = terminal
       /\ pc' \in LoopPositions]_vars

\* C11's case: the loop is back at its top, not quitting, after a periodic refresh
\* failed with zones loaded earlier
C11_Witness ==
  /\ pc = "top"
  /\ ~should_quit
  /\ ~connected
  /\ error = ErrMsg("zones")
  /\ zones # <<>>
  /\ action = NoKey
  /\ poll_age = 0

\* the step of an action whose browse-session call (browse, select, back, search)
\* fails
BrowseCallFailed ==
  /\ pc = "top"
  /\ action'.type \in {"SwitchToBrowse", "BrowseSelect", "BrowseBack", "SearchSubmit"}
  /\ calls' # <<>>
  /\ calls'[1].op \in {"browse", "select", "back", "search"}
  /\ ~calls'[1].res.ok

\* the error field, after the step, of the sub-state the step's call works on
affected_error ==
  CASE calls'[1].op = "browse" -> browse'.error
    [] calls'[1].op = "search" -> search'.results.error
    [] OTHER -> state_of_next(view).error

\* C12 (as claimed): every failure of a browse-session call made by an action
\* (browse on SwitchToBrowse, select on BrowseSelect, back on BrowseBack, search on
\* SearchSubmit) is stored in the error field of the affected sub-state.
C12_BrowseFailureStored ==
  [][BrowseCallFailed => affected_error = ErrMsg(calls'[1].op)]_vars

\* the step attempts a zone refresh: its last controller call is get_zones
RefreshAttempt ==
  pc' # pc /\ calls' # <<>> /\ calls'[Len(calls')].op = "zones"

\* C13: after every zone refresh attempt connected is true and the top-level error
\* is absent if and only if that get_zones call succeeded; a failed call sets
\* connected to false and stores the failure in the top-level error.  The initial
\* refresh is made before the loop draws its first frame: the only step out of
\* run_app's entry is a refresh attempt that leads to the top of the loop.
C13_ConnectedIffRefreshSucceeded ==
  [][/\ RefreshAttempt =>
          LET ok == calls'[Len(calls')].res.ok
          IN /\ connected' = ok
             /\ (error' = None) <=> ok
             /\ ~ok => error' = ErrMsg("zones")
     /\ (pc = "init" /\ pc' # pc) => (RefreshAttempt /\ pc' = "top")]_vars

\* C13's case: a refresh attempt has just failed after an earlier one had loaded
\* zones
C13_Witness ==
  /\ calls # <<>>
  /\ calls[Len(calls)].op = "zones"
  /\ ~calls[Len(calls)].res.ok
  /\ ~connected
  /\ error = ErrMsg("zones")
  /\ zones # <<>>
  /\ pc = "art"

\* enable_raw_mode has succeeded at some point of the run
RawModeWasEnabled ==
  terminal.raw_mode \/ \E i \in DOMAIN terminal.restore : terminal.restore[i] = "disable_raw_mode"

\* main has executed the call `op` of its teardown
Executed(op) == \E i \in DOMAIN terminal.restore : terminal.restore[i] = op

\* C14 (as claimed): on every exit path of main after raw mode has been enabled
\* (clean quit, an error of the event loop, or the failure of a later setup step)
\* the terminal restoration (disable raw mode, leave alternate screen) is executed
\* before the process exits.
C14_RestoredOnEveryExit ==
  (pc = "exit" /\ RawModeWasEnabled) =>
    (Executed("disable_raw_mode") /\ Executed("LeaveAlternateScreen"))

\* the step that ends a loop iteration whose periodic refresh was made and
\* succeeded
EndOfPoll ==
  /\ pc = "art"
  /\ pc' # pc
  /\ calls # <<>>
  /\ calls[1].op = "zones"
  /\ calls[1].res.ok

\* C15 (as claimed): if an album-art message for URL u was applied while u was not
\* the active zone's current art URL, then by the end of the next zone poll the
\* cached album_art_url is no longer u, whatever the state of the active zone (no
\* NowPlaying and no art URL included).  Checked for a u that is still not the
\* active zone's art URL when that poll ends.
C15_LateArtOverwritten ==
  [][(EndOfPoll /\ late_art # None /\ album_art_url = late_art
        /\ current_art_url # late_art)
       => album_art_url' # late_art]_vars

\* the active zone's loop mode, "disabled" when there is no active zone
current_loop_mode ==
  IF current_zone = NoneR THEN "disabled" ELSE current_zone[1].settings.loop_mode

\* the step's two calls succeeded: the command and the refresh after it
CommandAndRefreshOk ==
  Len(calls') = 2 /\ calls'[1].res.ok /\ calls'[2].res.ok

\* the mode a CycleLoop step sends, for a starting mode m
cycled(m) ==
  CASE m = "disabled" -> "loop"
    [] m = "loop" -> "loop_one"
    [] m = "loop_one" -> "disabled"

\* C16: a CycleLoop step sends the controller the successor of the active zone's
\* loop mode (disabled to loop, loop to loop_one, loop_one to disabled); when the
\* call succeeds and the following refresh reports the mode just set, that
\* successor is the zone's new mode, and three such steps in succession, which send
\* next_mode of next_mode of next_mode of the starting mode, return to the starting
\* mode, for each of the three modes.
C16_CycleLoopThreeTimes ==
  [][KeyStep("CycleLoop") =>
       LET m == current_loop_mode
       IN /\ Len(calls') = 2
          /\ calls'[1].op = "loop"
          /\ calls'[1].arg = cycled(m)
          /\ calls'[2].op = "zones"
          /\ next_mode(next_mode(next_mode(m))) = m
          /\ (CommandAndRefreshOk /\ zones' # <<>>
                /\ zones'[1].settings.loop_mode = calls'[1].arg)
               => /\ current_zone' # NoneR
                  /\ current_zone'[1].settings.loop_mode = next_mode(m)
                  /\ next_mode(next_mode(current_zone'[1].settings.loop_mode)) = m]_vars

\* C16's case: a CycleLoop from loop_one has sent "disabled", and the refresh
\* reports it
C16_Witness ==
  /\ action.type = "CycleLoop"
  /\ Len(calls) = 2
  /\ calls[1].op = "loop" /\ calls[1].arg = "disabled" /\ calls[1].res.ok
  /\ calls[2].res.ok
  /\ current_zone # NoneR
  /\ current_zone[1].settings.loop_mode = "disabled"

\* the active zone's shuffle and auto-radio values, false when there is no active
\* zone
current_shuffle == IF current_zone = NoneR THEN FALSE ELSE current_zone[1].settings.shuffle
current_radio == IF current_zone = NoneR THEN FALSE ELSE current_zone[1].settings.auto_radio

\* what a toggle step must do for the setter `op`, the current value b and the
\* value b_next the active zone has after the step: send the negation of b; when
\* the call succeeds and the refresh reports the value sent, the value is negated,
\* and the toggle of the negated value sends b again
Toggled(op, b, b_next, reported) ==
  /\ Len(calls') = 2
  /\ calls'[1].op = op
  /\ calls'[1].arg = (IF b THEN "off" ELSE "on")
  /\ calls'[2].op = "zones"
  /\ on_off(~(~b)) = (IF b THEN "on" ELSE "off")
  /\ (CommandAndRefreshOk /\ zones' # <<>> /\ reported = (calls'[1].arg = "on"))
       => /\ current_zone' # NoneR
          /\ b_next = ~b
          /\ on_off(~b_next) = (IF b THEN "on" ELSE "off")

\* C17: ToggleShuffle (ToggleRadio) invokes the setter with the negation of the
\* active zone's shuffle (auto-radio) value, false standing for a missing zone;
\* with the call succeeding and the refresh reporting the value just set the value
\* is negated, so that a second toggle sends, and restores, the original value.
C17_ToggleTwice ==
  [][/\ KeyStep("ToggleShuffle") =>
          Toggled("shuffle", current_shuffle, current_shuffle',
                  zones'[1].settings.shuffle)
     /\ KeyStep("ToggleRadio") =>
          Toggled("radio", current_radio, current_radio',
                  zones'[1].settings.auto_radio)]_vars

\* C17's case: a ToggleShuffle from true has sent "off", and the refresh reports
\* shuffle = false
C17_Witness ==
  /\ action.type = "ToggleShuffle"
  /\ Len(calls) = 2
  /\ calls[1].op = "shuffle" /\ calls[1].arg = "off" /\ calls[1].res.ok
  /\ calls[2].res.ok
  /\ current_zone # NoneR
  /\ ~current_zone[1].settings.shuffle

\* there is no active zone, or it has no NowPlaying, or its track has length 0
NoProgress ==
  \/ current_zone = NoneR
  \/ current_zone[1].now_playing = NoneR
  \/ current_zone[1].now_playing[1].length = 0

\* C18: progress_ratio is within [0, 1] for every zone state, seek position, track
\* length and time since the last refresh (a seek position past the length and a
\* zone that is not playing included), and is 0 whenever the length is 0 or there
\* is no active zone or no NowPlaying.
C18_ProgressRatioInUnitInterval ==
  /\ progress_ratio.den > 0
  /\ 0 <= progress_ratio.num
  /\ progress_ratio.num <= progress_ratio.den
  /\ NoProgress => progress_ratio.num = 0

\* C18's case: a paused zone reports a seek position past the track's length, some
\* time after the refresh: the ratio is clamped to 1
C18_Witness ==
  /\ current_zone # NoneR
  /\ current_zone[1].state = "paused"
  /\ current_zone[1].now_playing # NoneR
  /\ current_zone[1].now_playing[1].seek_position > current_zone[1].now_playing[1].length
  /\ refresh_age > 0
  /\ progress_ratio = [num |-> 1, den |-> 1]

\* the step is a zone refresh that succeeds
RefreshSucceeds == RefreshAttempt /\ calls'[Len(calls')].res.ok

\* C19: while the active zone is playing and no zone refresh occurs the
\* interpolated seek position min(seek_position + time since last_refresh, length)
\* does not decrease as time advances and never exceeds the length; when the zone
\* is not playing the position is seek_position whatever the time elapsed.
C19_InterpolatedSeekMonotone ==
  [][current_zone # NoneR /\ current_zone[1].now_playing # NoneR =>
       LET np == current_zone[1].now_playing[1]
       IN IF current_zone[1].state = "playing"
          THEN /\ interpolated_seek =
                    Min(np.seek_position * TicksPerSecond + refresh_age,
                        np.length * TicksPerSecond)
               /\ interpolated_seek <= np.length * TicksPerSecond
               /\ ~RefreshSucceeds => interpolated_seek' >= interpolated_seek
          ELSE /\ interpolated_seek = np.seek_position * TicksPerSecond
               /\ ~RefreshSucceeds => interpolated_seek' = interpolated_seek]_vars

\* C19's case: a playing zone one second before the end of its track, some time
\* after the refresh: the position has reached the length
C19_Witness ==
  /\ current_zone # NoneR
  /\ current_zone[1].state = "playing"
  /\ current_zone[1].now_playing # NoneR
  /\ current_zone[1].now_playing[1].seek_position = 1
  /\ current_zone[1].now_playing[1].length = 2
  /\ refresh_age = TicksPerSecond
  /\ interpolated_seek = 2 * TicksPerSecond

\* the number a sequence of decimal digits denotes
RECURSIVE parse_decimal(_)
parse_decimal(digits) ==
  LET last == CHOOSE d \in 0..9 : Digits[d + 1] = digits[Len(digits)]
  IN IF Len(digits) = 1 THEN last
     ELSE 10 * parse_decimal(SubSeq(digits, 1, Len(digits) - 1)) + last

\* C20: for every internal 0-based index i, select(i) invokes the controller with
\* the decimal numeral of i + 1; a BrowseSelect with selected_index i in the active
\* view issues the controller command select with the argument i + 1.
C20_SelectIsOneBased ==
  /\ \A i \in 0..MaxIndex : parse_decimal(to_string(select_arg(i))) = i + 1
  /\ [][(KeyStep("BrowseSelect") /\ view # "NowPlaying") =>
          /\ calls' # <<>>
          /\ calls'[1].op = "select"
          /\ parse_decimal(calls'[1].arg) = state_of(view).selected_index + 1]_vars

\* C20's case: in Search results mode a BrowseSelect on the second item has sent
\* select 2
C20_Witness ==
  /\ action.type = "BrowseSelect"
  /\ calls # <<>>
  /\ calls[1].op = "select"
  /\ calls[1].arg = <<"2">>
  /\ view = "Search"
  /\ ~search.input_active

\* the controller operation of each transport action
TransportOp ==
  [PlayPause |-> "playpause", NextTrack |-> "next", PrevTrack |-> "prev"]

\* C21: a PlayPause, NextTrack or PrevTrack keystroke invokes its controller
\* operation exactly once and then get_zones exactly once, in that order, applies
\* the refresh, and only then returns to the loop, where the next keystroke is read.
C21_TransportThenRefresh ==
  [][\A t \in DOMAIN TransportOp :
       KeyStep(t) =>
         /\ Len(calls') = 2
         /\ calls'[1].op = TransportOp[t]
         /\ calls'[2].op = "zones"
         /\ connected' = calls'[2].res.ok
         /\ calls'[2].res.ok => refresh_age' = 0
         /\ pc' = "poll"]_vars

\* C21's case: a NextTrack whose command failed was still followed by a
\* successful refresh
C21_Witness ==
  /\ action.type = "NextTrack"
  /\ Len(calls) = 2
  /\ calls[1].op = "next" /\ ~calls[1].res.ok
  /\ calls[2].op = "zones" /\ calls[2].res.ok
  /\ zones # <<>>

\* a step that leaves every field of the App as it was
AppUnchanged ==
  UNCHANGED <<should_quit, view, popup, connected, error, zones, selected_zone_index,
              zone_selector_index, album_art, album_art_url, refresh_age, browse, search>>

\* the literal each volume action sends
VolumeValue == [VolumeUp |-> "+5", VolumeDown |-> "-5"]

\* the active zone has an output
HasOutput == current_zone # NoneR /\ current_zone[1].outputs # <<>>

\* C22: VolumeUp and VolumeDown invoke volume with "+5" and "-5" on the first
\* output of the active zone, and then refresh; without an active zone or without
\* an output they make no controller call and leave the App unchanged.
C22_VolumeOnFirstOutput ==
  [][\A t \in DOMAIN VolumeValue :
       KeyStep(t) =>
         IF HasOutput
         THEN /\ Len(calls') = 2
              /\ calls'[1].op = "volume " \o VolumeValue[t]
              /\ calls'[1].arg = Head(current_zone[1].outputs).display_name
              /\ calls'[2].op = "zones"
         ELSE /\ calls' = <<>>
              /\ AppUnchanged]_vars

\* C22's case: VolumeDown in a zone of two outputs has sent -5 to the first one
\* (the refresh that followed failed, so the zone is still the one acted on)
C22_Witness ==
  /\ action.type = "VolumeDown"
  /\ Len(calls) = 2
  /\ calls[1].op = "volume -5"
  /\ ~calls[2].res.ok
  /\ zones # <<>>
  /\ Len(zones[1].outputs) = 2
  /\ calls[1].arg = zones[1].outputs[1].display_name

\* C22's other case: VolumeUp in a zone without outputs has called nothing
C22_WitnessNoOutput ==
  /\ action.type = "VolumeUp"
  /\ calls = <<>>
  /\ zones # <<>>
  /\ current_zone # NoneR
  /\ current_zone[1].outputs = <<>>

\* C23: SearchSubmit with an empty query makes no controller call and changes
\* nothing (input_active stays true); with a non-empty query it calls search with
\* that query exactly once and, on success, stores the result's items, resets the
\* selection to 0, makes the breadcrumb stack the single crumb result.title (or
\* "Search" without a title), clears the error and leaves input mode.
C23_SearchSubmit ==
  [][KeyStep("SearchSubmit") =>
       IF search.query = <<>>
       THEN /\ calls' = <<>>
            /\ AppUnchanged
            /\ search'.input_active
       ELSE /\ Len(calls') = 1
            /\ calls'[1].op = "search"
            /\ calls'[1].arg = search.query
            /\ calls'[1].res.ok =>
                 /\ search'.results.items = calls'[1].res.items
                 /\ search'.results.selected_index = 0
                 /\ search'.results.breadcrumbs =
                      <<IF calls'[1].res.title = None THEN "Search"
                        ELSE calls'[1].res.title>>
                 /\ search'.results.error = None
                 /\ ~search'.input_active]_vars

\* C23's case: a submitted search has loaded a titled result of two items and
\* left input mode
C23_Witness ==
  /\ action.type = "SearchSubmit"
  /\ calls # <<>>
  /\ calls[1].op = "search"
  /\ calls[1].res.ok
  /\ calls[1].res.title = "T"
  /\ Len(calls[1].res.items) = 2
  /\ search.results.breadcrumbs = <<"T">>
  /\ ~search.input_active

\* C23's other case: Enter on an empty query
C23_WitnessEmpty ==
  /\ action.type = "SearchSubmit"
  /\ calls = <<>>
  /\ search.query = <<>>
  /\ search.input_active

\* C24: with no popup open, Ctrl-C is dispatched to Quit in every view, also in
\* Search input mode, where a plain 'c' is dispatched to SearchChar('c').
C24_CtrlCQuits ==
  popup = None =>
    /\ handle_key(CtrlKey("c")) = Act("Quit")
    /\ (view = "Search" /\ search.input_active) =>
         handle_key(CharKey("c")) = SearchCharAct("c")

\* C24's case: Ctrl-C pressed in Search input mode has set should_quit
C24_Witness ==
  /\ action.type = "Quit"
  /\ popup = None
  /\ view = "Search"
  /\ search.input_active
  /\ should_quit

\* Search input mode with no popup open
InSearchInput == popup = None /\ view = "Search" /\ search.input_active

\* a key that is Ctrl-C
IsCtrlC(key) == key.ctrl /\ IsChar(key, "c")

\* C25: in Search input mode with no popup, every character key other than Ctrl-C
\* (q, ?, z, space, 1, 2, 3 and / among them) is dispatched to SearchChar of its
\* character, and every key that is not Esc, Enter, Backspace or a character to
\* None; the SearchChar step appends the character to the query and does nothing
\* else: no quit, no popup, no change of view, no controller call.
C25_SearchInputTakesCharacters ==
  /\ [](InSearchInput =>
          \A key \in AllKeys :
            /\ (key.code = "Char" /\ ~IsCtrlC(key)) =>
                 handle_key(key) = SearchCharAct(key.ch)
            /\ key.code \notin {"Esc", "Enter", "Backspace", "Char"} =>
                 handle_key(key) = Act("None"))
  /\ [][KeyStep("SearchChar") =>
          /\ InSearchInput
          /\ search' = [search EXCEPT !.query = Append(search.query, action'.ch)]
          /\ calls' = <<>>
          /\ UNCHANGED <<should_quit, view, popup, connected, error, zones,
                         selected_zone_index, zone_selector_index, album_art,
                         album_art_url, refresh_age, browse>>]_vars

\* C25's case: the key 2, which opens the Browse view elsewhere, was typed into
\* the query
C25_Witness ==
  /\ action = SearchCharAct("2")
  /\ InSearchInput
  /\ search.query = <<"2">>
  /\ calls = <<>>
  /\ ~should_quit

\* C26: BrowseSelect or BrowseBack applied while the view is NowPlaying makes no
\* controller call and leaves the whole App unchanged, and so do SelectUp and
\* SelectDown applied in NowPlaying with no popup open.
C26_MisuseIgnored ==
  [][/\ ((KeyStep("BrowseSelect") \/ KeyStep("BrowseBack")) /\ view = "NowPlaying") =>
          (calls' = <<>> /\ AppUnchanged)
     /\ ((KeyStep("SelectUp") \/ KeyStep("SelectDown"))
           /\ view = "NowPlaying" /\ popup = None) =>
          (calls' = <<>> /\ AppUnchanged)]_vars

\* C26's case: SelectUp was applied in NowPlaying, with no popup, while the browse
\* state left behind holds a list with its second item selected, below the root
C26_Witness ==
  /\ action.type = "SelectUp"
  /\ view = "NowPlaying"
  /\ popup = None
  /\ Len(browse.items) = 2
  /\ browse.selected_index = 1
  /\ Len(browse.breadcrumbs) = 2

\* C26's other case: BrowseBack was applied in NowPlaying with such a browse state
C26_WitnessBack ==
  /\ action.type = "BrowseBack"
  /\ view = "NowPlaying"
  /\ calls = <<>>
  /\ Len(browse.breadcrumbs) = 2

\* the three selection indices, and the lengths of the lists they point into
SelectionIndices ==
  [zone |-> zone_selector_index, browse |-> browse.selected_index,
   search |-> search.results.selected_index]
SelectionLengths ==
  [zone |-> Len(zones), browse |-> Len(browse.items), search |-> Len(search.results.items)]

\* the list a selection move acts on, "none" in Now Playing; the zone selector's
\* list when `zone_popup` holds
Focus(zone_popup) ==
  CASE zone_popup -> "zone"
    [] view = "Browse" -> "browse"
    [] view = "Search" -> "search"
    [] OTHER -> "none"

\* one step up: one less, unless at 0
MovedUp(i) == IF i = 0 THEN i ELSE i - 1

\* one step down in a list of len entries: one more, unless the list is empty or
\* the index is the last one (at_last: exactly the last; otherwise: the last or
\* beyond it)
MovedDown(i, len, at_last) ==
  IF len = 0 \/ (IF at_last THEN i = len - 1 ELSE i >= len - 1) THEN i ELSE i + 1

\* SelectUp and SelectDown move the focused index and no other selection index
SelectionMoves(focus, at_last) ==
  /\ KeyStep("SelectUp") =>
       /\ SelectionIndices' =
            [f \in DOMAIN SelectionIndices |->
               IF f = focus THEN MovedUp(SelectionIndices[f]) ELSE SelectionIndices[f]]
       /\ UNCHANGED selected_zone_index
  /\ KeyStep("SelectDown") =>
       /\ SelectionIndices' =
            [f \in DOMAIN SelectionIndices |->
               IF f = focus THEN MovedDown(SelectionIndices[f], SelectionLengths[f], at_last)
               ELSE SelectionIndices[f]]
       /\ UNCHANGED selected_zone_index

\* the step's Action is one that handle_key returns for some key in this state
Dispatchable == \E key \in AllKeys : handle_key(key) = action'

\* C27 as stated, for the actions a keystroke can produce: the focused selection
\* is zone_selector_index when a popup is open, and SelectDown moves it by one
\* unless it is the last index or the list is empty.
C27_SelectionMoves_AsClaimed ==
  [][Dispatchable => SelectionMoves(Focus(popup # None), TRUE)]_vars

\* C27: SelectUp decreases the focused selection by exactly one unless it is 0, and
\* SelectDown increases it by exactly one unless it is at or beyond the last index
\* of its list or the list is empty; then it is unchanged.  The focused selection is
\* zone_selector_index when the zone selector is open, else browse.selected_index
\* in Browse and search.results.selected_index in Search; no other selection index
\* is modified.
C27_SelectionMoves ==
  [][SelectionMoves(Focus(popup = "ZoneSelector"), FALSE)]_vars

\* C27's case: SelectDown in the zone selector with the index beyond the end of a
\* zone list that has shrunk has left it where it was
C27_Witness ==
  /\ action.type = "SelectDown"
  /\ popup = "ZoneSelector"
  /\ Len(zones) = 1
  /\ zone_selector_index = 1

\* C27's plain case: SelectDown has moved the browse selection to the second item
\* and left the two other indices
C27_WitnessMoved ==
  /\ action.type = "SelectDown"
  /\ popup = None
  /\ view = "Browse"
  /\ browse.selected_index = 1
  /\ zone_selector_index = 0
  /\ search.results.selected_index = 0

\* C28: SwitchToBrowse sets the view to Browse and invokes browse exactly once; the
\* browse state afterwards depends on the answer alone, nothing of the previous
\* state is kept.  On success: the result's items, selection 0, the single crumb
\* result.title (or "Library"), no error.  On failure: no items, the single crumb
\* "Library", the error set, the view still Browse.  In both cases loading is false.
C28_SwitchToBrowse ==
  [][KeyStep("SwitchToBrowse") =>
       /\ view' = "Browse"
       /\ Len(calls') = 1
       /\ calls'[1].op = "browse"
       /\ LET result == calls'[1].res
          IN IF result.ok
             THEN browse' = [items |-> result.items, selected_index |-> 0,
                             breadcrumbs |-> <<IF result.title = None THEN "Library"
                                               ELSE result.title>>,
                             loading |-> FALSE, error |-> None]
             ELSE /\ browse'.items = <<>>
                  /\ browse'.selected_index = 0
                  /\ browse'.breadcrumbs = <<"Library">>
                  /\ browse'.error # None
                  /\ ~browse'.loading]_vars

\* C28's case: a SwitchToBrowse whose browse call failed has left an empty Browse
\* view with the error on display
C28_Witness ==
  /\ action.type = "SwitchToBrowse"
  /\ calls # <<>>
  /\ calls[1].op = "browse"
  /\ ~calls[1].res.ok
  /\ view = "Browse"
  /\ browse.items = <<>>
  /\ browse.breadcrumbs = <<"Library">>
  /\ browse.error # None

\* C28's other case: a SwitchToBrowse has loaded a titled listing
C28_WitnessLoaded ==
  /\ action.type = "SwitchToBrowse"
  /\ calls # <<>>
  /\ calls[1].res.ok
  /\ browse.breadcrumbs = <<"T">>
  /\ Len(browse.items) = 2

\* C29: ToggleMute invokes unmute on the first output of the active zone when that
\* output's volume reports is_muted, and mute otherwise (also when the output has
\* no volume record), and then refreshes the zones; without an active zone or an
\* output it makes no controller call and no refresh.
C29_ToggleMute ==
  [][KeyStep("ToggleMute") =>
       IF HasOutput
       THEN LET output == Head(current_zone[1].outputs)
            IN /\ Len(calls') = 2
               /\ calls'[1].op =
                    IF output.volume # NoneR /\ output.volume[1].is_muted
                    THEN "unmute" ELSE "mute"
               /\ calls'[1].arg = output.display_name
               /\ calls'[2].op = "zones"
       ELSE /\ calls' = <<>>
            /\ AppUnchanged]_vars

\* C29's case: ToggleMute on an output without a volume record has sent mute (the
\* refresh that followed failed, so the zone is still the one acted on)
C29_Witness ==
  /\ action.type = "ToggleMute"
  /\ Len(calls) = 2
  /\ calls[1].op = "mute"
  /\ ~calls[2].res.ok
  /\ zones # <<>>
  /\ zones[1].outputs # <<>>
  /\ zones[1].outputs[1].volume = NoneR

\* C29's other cases: unmute sent to a muted output; nothing sent without an output
C29_WitnessUnmute ==
  /\ action.type = "ToggleMute"
  /\ Len(calls) = 2
  /\ calls[1].op = "unmute"
  /\ calls[1].arg = "Speakers"

C29_WitnessNoOutput ==
  /\ action.type = "ToggleMute"
  /\ calls = <<>>
  /\ current_zone # NoneR
  /\ current_zone[1].outputs = <<>>

\* the characters of the playback and volume keys of the Now Playing view
PlaybackChars == {" ", "n", "p", "s", "l", "r", "+", "=", "-", "m"}

\* C30: in Browse view with no popup open each playback and volume key (Space, n,
\* p, s, l, r, +, =, -, m) is dispatched to the action it has in Now Playing view,
\* and that action is none of the Browse view's own.
C30_BrowsePlaybackKeys ==
  (popup = None /\ view = "Browse") =>
    \A c \in PlaybackChars :
      /\ handle_key(CharKey(c)) = handle_now_playing_key(CharKey(c))
      /\ handle_key(CharKey(c)).type \in
           {"PlayPause", "NextTrack", "PrevTrack", "ToggleShuffle", "CycleLoop",
            "ToggleRadio", "VolumeUp", "VolumeDown", "ToggleMute"}

\* a step of a detached fetch task for u: the task ends
FetchEnds(u) == fetches'[u] < fetches[u]

\* the step of the event loop that receives an art message
Receives == pc = "top" /\ chan # <<>> /\ chan' = Tail(chan)

\* C31: a fetch task that fails sends nothing on the channel and leaves the cached
\* image as it was (a fetch task changes nothing of the App, and the channel only
\* by the message of a successful fetch); the cached image changes only when the
\* message of a successful fetch is received, which caches that image, or when
\* SelectZone clears it.
C31_FailedFetchKeepsArt ==
  [][/\ \A u \in URLs :
          FetchEnds(u) =>
            /\ AppUnchanged
            /\ chan' = chan \/ chan' = Append(chan, u)
     /\ album_art' # album_art =>
          \/ Receives /\ album_art' = Head(chan)
          \/ KeyStep("SelectZone") /\ album_art' = None]_vars

\* C31's case: the image of u1 is cached although a fetch for u2 was spawned
\* (album_art_url = u2): that fetch has ended, nothing is in flight or on the
\* channel, so it failed and the previous image is still there
C31_Witness ==
  /\ album_art = "u1"
  /\ album_art_url = "u2"
  /\ InFlight = 0
  /\ chan = <<>>

C32_WitnessCleared ==
  /\ action.type = "SelectZone"
  /\ album_art = None
  /\ chan # <<>>
  /\ pc = "poll"

\* positions of run_app where a frame is drawn and a keystroke is dispatched
\* ("top"), or before the loop is entered
BeforeDispatch == {"main", "alt", "term", "init", "top"}

\* C33: once an action has set the quit flag, the event loop returns at the end
\* of that same iteration: the flag is set by a dispatch at the top of the loop,
\* the iteration goes on through its periodic refresh and its art check, from
\* which run_app returns; the loop is never again at its top, where frames are
\* drawn and keystrokes dispatched (no later step dispatches an action), and the
\* flag never reverts to false.
C33_QuitReturnsSameIteration ==
  /\ [](should_quit => pc \notin BeforeDispatch)
  /\ [][/\ should_quit => should_quit'
        /\ ~should_quit /\ should_quit' => pc = "top" /\ pc' = "poll"
        /\ should_quit /\ pc' # pc =>
             /\ pc = "poll" => pc' = "art"
             /\ pc = "art" => pc' = "done"
             /\ pc' \notin BeforeDispatch \cup {"failed"}
        /\ should_quit /\ action' # action => action' = NoKey]_vars

\* C33's case: Quit was dispatched and run_app has returned
C33_Witness ==
  /\ should_quit
  /\ pc = "done"
  /\ terminal.run_app # "Err"

\* the step of the event loop in which the periodic refresh fires
PeriodicRefresh == pc = "poll" /\ pc' = "art" /\ calls' # <<>>

\* the original reading of C34: the periodic refresh fires only when poll_interval
\* has elapsed since the most recent zone refresh of any origin (here: since the
\* most recent successful one, which is the weaker demand)
C34_SinceAnyRefresh_AsClaimed ==
  [][PeriodicRefresh => refresh_age >= Min(PollTicks, MaxAge)]_vars

\* C34: the periodic refresh fires only when at least poll_interval has elapsed
\* on the loop's own timer, and firing resets that timer; the timer is reset by
\* nothing else, so it measures the time since the previous periodic refresh (or
\* since run_app started), whatever refreshes actions have made in between.
C34_PeriodicRefreshTimer ==
  [][/\ PeriodicRefresh => poll_age >= PollTicks /\ poll_age' = 0
     /\ poll_age' < poll_age => PeriodicRefresh]_vars

\* C34's case: the periodic refresh has fired (and failed) in the iteration in
\* which an action's refresh had succeeded, no time having passed since
C34_Witness ==
  /\ pc = "art"
  /\ action = NoKey
  /\ calls # <<>>
  /\ calls[1].op = "zones"
  /\ ~calls[1].res.ok
  /\ poll_age = 0
  /\ refresh_age = 0

\* the step makes a zone refresh whose get_zones call fails
RefreshFails == RefreshAttempt /\ ~calls'[Len(calls')].res.ok

\* C35: a failed zone refresh leaves zones, selected_zone_index and last_refresh
\* unchanged (in a SelectZone step selected_zone_index is what select_zone made
\* of it before the refresh); last_refresh is updated on exactly the successful
\* refreshes: a successful refresh sets it to now, and in no other step does the
\* time since last_refresh decrease.
C35_FailedRefreshKeepsZones ==
  [][/\ RefreshFails =>
          /\ zones' = zones
          /\ refresh_age' = refresh_age
          /\ selected_zone_index' =
               IF KeyStep("SelectZone") /\ zone_selector_index < Len(zones)
               THEN zone_selector_index
               ELSE selected_zone_index
     /\ RefreshSucceeds => refresh_age' = 0
     /\ refresh_age' < refresh_age => RefreshSucceeds]_vars

\* C35's case: the periodic refresh has failed; the stale list of two zones, the
\* selection of the second and the old timestamp are still there
C35_Witness ==
  /\ pc = "art"
  /\ calls # <<>>
  /\ calls[Len(calls)].op = "zones"
  /\ ~calls[Len(calls)].res.ok
  /\ ~connected
  /\ Len(zones) = 2
  /\ selected_zone_index = 1
  /\ refresh_age > 0

\* the step spawns a fetch task for u
Spawns(u) == fetches'[u] > fetches[u]

\* a fetch for u is spawned only by the art check of an iteration in which the
\* active zone's art URL is u and the cached URL is not, and the spawning step
\* stores u as the cached URL
SpawnStoresUrl ==
  \A u \in URLs :
    Spawns(u) =>
      /\ pc = "art"
      /\ current_art_url = u
      /\ album_art_url # u
      /\ album_art_url' = u

\* the step applies an art message for another URL than u
AppliesOther(u) == Receives /\ Head(chan) # u

\* the original reading of C36: a spawn for u stores u as the cached URL, and
\* every step during which the active zone's art URL stays u and no message for
\* a different URL is applied keeps the cached URL at u ("later iterations see
\* no change") and spawns no fetch for u
C36_OneFetchPerUrl_AsClaimed ==
  [][/\ SpawnStoresUrl
     /\ \A u \in URLs :
          /\ album_art_url = u
          /\ current_art_url = u
          /\ current_art_url' = u
          /\ ~AppliesOther(u)
          => album_art_url' = u /\ ~Spawns(u)]_vars

\* C36: a spawn for u stores u as the cached URL; while the active zone's art
\* URL stays u, no art message for a different URL is applied and no SelectZone
\* is applied, the cached URL stays u and no further fetch for u is spawned, so
\* at most one fetch task for u is spawned and a failed fetch for u is not
\* retried.
C36_OneFetchPerUrl ==
  [][/\ SpawnStoresUrl
     /\ \A u \in URLs :
          /\ album_art_url = u
          /\ current_art_url = u
          /\ current_art_url' = u
          /\ ~AppliesOther(u)
          /\ ~KeyStep("SelectZone")
          => album_art_url' = u /\ ~Spawns(u)]_vars

\* C36's case: the fetch for the active zone's URL u1 has failed (nothing is
\* cached, in flight or on the channel) and the loop is back at its top with the
\* cached URL still u1
C36_Witness ==
  /\ pc = "top"
  /\ current_art_url = "u1"
  /\ album_art_url = "u1"
  /\ album_art = None
  /\ InFlight = 0
  /\ chan = <<>>

\* SelectZone has cleared the cached URL while the fetch for the active zone's
\* URL u1 is still in flight: the next art check sees a change again
C36_WitnessCleared ==
  /\ pc = "poll"
  /\ action.type = "SelectZone"
  /\ current_art_url = "u1"
  /\ album_art_url = None
  /\ fetches["u1"] > 0

\* C37: when the active zone has no NowPlaying, or its NowPlaying has no
\* album-art URL, the event loop neither clears album_art / album_art_url nor
\* spawns a fetch: the art check of such an iteration changes neither and spawns
\* nothing, and as long as that is so only a received art message or SelectZone
\* changes the cache, so art cached for an earlier track remains displayed.
C37_NoUrlKeepsArt ==
  [][current_art_url = None =>
       /\ \A u \in URLs : ~Spawns(u)
       /\ pc = "art" => album_art' = album_art /\ album_art_url' = album_art_url
       /\ <<album_art, album_art_url>>' # <<album_art, album_art_url>> =>
            \/ Receives /\ album_art' = Head(chan) /\ album_art_url' = Head(chan)
            \/ KeyStep("SelectZone") /\ album_art' = None /\ album_art_url' = None]_vars

\* C37's case: the active zone plays a track without an art URL, the art check
\* of the iteration has run, and the image of the earlier track is still cached
C37_Witness ==
  /\ pc = "top"
  /\ action = NoKey
  /\ calls = <<>>
  /\ current_zone # NoneR
  /\ current_zone[1].now_playing # NoneR
  /\ current_zone[1].now_playing[1].album_art_url = None
  /\ album_art = "u1"
  /\ album_art_url = "u1"

\* the same with an active zone that plays nothing
C37_WitnessNoTrack ==
  /\ pc = "top"
  /\ action = NoKey
  /\ calls = <<>>
  /\ current_zone # NoneR
  /\ current_zone[1].now_playing = NoneR
  /\ album_art = "u1"
  /\ album_art_url = "u1"

\* C38: SelectZone with zone_selector_index >= len(zones) (an empty zone list, or
\* a list that a refresh has shrunk) issues no set_zone call, leaves
\* selected_zone_index and the album art unchanged and leaves the popup open,
\* while still refreshing the zones; SelectDown in the selector never raises
\* zone_selector_index above len(zones)-1.
C38_SelectZoneOutOfRange ==
  [][/\ KeyStep("SelectZone") /\ zone_selector_index >= Len(zones) =>
          /\ Len(calls') = 1
          /\ calls'[1].op = "zones"
          /\ selected_zone_index' = selected_zone_index
          /\ album_art' = album_art
          /\ album_art_url' = album_art_url
          /\ popup = "ZoneSelector"
          /\ popup' = popup
          /\ connected' = calls'[1].res.ok
     /\ KeyStep("SelectDown") /\ zone_selector_index' > zone_selector_index =>
          /\ popup = "ZoneSelector"
          /\ zone_selector_index' = zone_selector_index + 1
          /\ zone_selector_index' <= Len(zones) - 1]_vars

\* C38's case: the list has shrunk to one zone under a selector index of 1, and
\* SelectZone has refreshed the zones and left the selection, the cached image
\* of u1 and the popup as they were
C38_Witness ==
  /\ pc = "poll"
  /\ action.type = "SelectZone"
  /\ Len(calls) = 1
  /\ calls[1].op = "zones"
  /\ ~calls[1].res.ok
  /\ Len(zones) = 1
  /\ zone_selector_index = 1
  /\ selected_zone_index = 0
  /\ popup = "ZoneSelector"
  /\ album_art = "u1"

\* SelectZone on an empty zone list
C38_WitnessEmpty ==
  /\ pc = "poll"
  /\ action.type = "SelectZone"
  /\ Len(calls) = 1
  /\ ~calls[1].res.ok
  /\ zones = <<>>
  /\ popup = "ZoneSelector"

\* SelectDown has moved the selector to the last zone of two
C38_WitnessDown ==
  /\ pc = "poll"
  /\ action.type = "SelectDown"
  /\ popup = "ZoneSelector"
  /\ zone_selector_index = 1
  /\ Len(zones) = 2

\* the step is a SelectZone whose set_zone call fails
SetZoneFails ==
  /\ KeyStep("SelectZone")
  /\ calls' # <<>>
  /\ calls'[1].op = "zone set"
  /\ ~calls'[1].res.ok

\* C39: when the set_zone controller call fails, SelectZone still commits
\* zone_selector_index to selected_zone_index, clears the album art and closes
\* the popup, and still refreshes the zones; the failure is recorded in no error
\* field of the App: the browse and search errors are left alone and the
\* top-level error is absent or the refresh's own failure, as the refresh went.
C39_SetZoneFailureIgnored ==
  [][SetZoneFails =>
       /\ selected_zone_index' = zone_selector_index
       /\ album_art' = None
       /\ album_art_url' = None
       /\ popup' = None
       /\ Len(calls') = 2
       /\ calls'[2].op = "zones"
       /\ error' = IF calls'[2].res.ok THEN None ELSE ErrMsg("zones")
       /\ error' # ErrMsg("zone set")
       /\ browse'.error = browse.error
       /\ search'.results.error = search.results.error]_vars

\* C39's case: set_zone has failed and the refresh succeeded; the second zone is
\* selected, nothing is cached, the popup is closed and no error is shown
C39_Witness ==
  /\ pc = "poll"
  /\ action.type = "SelectZone"
  /\ Len(calls) = 2
  /\ calls[1].op = "zone set"
  /\ ~calls[1].res.ok
  /\ calls[2].res.ok
  /\ selected_zone_index = 1
  /\ popup = None
  /\ album_art = None
  /\ album_art_url = None
  /\ error = None

=============================================================================
